---- MODULE Spec2Model ----
(***************************************************************************)
(* Verification model of VerifyPulse.                                      *)
(*                                                                         *)
(* Part 1: quality_agent/core/native_test_runner.py -- run_native_tests,   *)
(*         the stop-on-first-failure run loop and its interaction history. *)
(* Part 2: verifypulse/integrations -- the fail-soft wrappers              *)
(*         SkyflowClient, ParallelClient and VerifyPulseRedis.             *)
(* Part 3: verifypulse/api_server.py -- POST /run and GET /history.        *)
(* Part 4: quality_agent/agent_runner.py -- the failure log                *)
(*         (core/logger.py) and the diagnosis (core/rag_pipeline.py,       *)
(*         llm/client.py).                                                 *)
(*                                                                         *)
(* Text (reasons, URLs, methods) is modelled by TLA+ strings, built with   *)
(* \o and inspected with Len and SubSeq, as the Python code builds and     *)
(* inspects its str values.                                                *)
(***************************************************************************)
EXTENDS Integers, Sequences, FiniteSets, TLC

VARIABLES
    \* ---- run_native_tests ------------------------------------------------
    api_base_url,   \* argument of run_native_tests
    test_cases,     \* the list load_test_cases() returned
    pc,             \* "loop": inside the for loop; "returned": after return
    idx,            \* 1-based position of the for loop in test_cases
    history,        \* the local list `history` of RequestRecord
    result,         \* <<>> until the return, then <<TestRunResult>>
    http_log,       \* instrumentation: every call made on the httpx client
    rec_case,       \* instrumentation: for each record of history, its case
    started,        \* instrumentation: number of loop iterations entered
    \* ---- fail-soft wrappers (one instance per behaviour) ------------------
    wrapper,        \* class of the constructed instance, "" when none
    ops,            \* number of operations called on the instance
    net_calls,      \* instrumentation: network calls the instance attempted
    last,           \* outcome of the last operation called on it
    config,         \* constructor arguments and environment of the instance
    sky_enabled,    \* SkyflowClient.enabled
    par_enabled,    \* ParallelClient.enabled
    use_memory,     \* VerifyPulseRedis.use_memory
    has_client,     \* VerifyPulseRedis.client is not None
    store,          \* VerifyPulseRedis._store
    backend,        \* content of the Redis server behind the client
    saved,          \* instrumentation: payload last saved under each run id
    plain_writes,   \* instrumentation: set or store_requirement was called
    \* ---- run_agent: failure log and diagnosis ---------------------------
    meta,           \* commit_hash, run_id and timestamp of the run
    raw_log,        \* <<>> until save_raw_failure_log returned, then <<log>>
    fs,             \* the files written under the working directory
    agent_last      \* outcome of the last call made on the raw log

runner_vars == <<api_base_url, test_cases, pc, idx, history, result,
                 http_log, rec_case, started>>

wrap_vars == <<wrapper, ops, net_calls, last, config, sky_enabled, par_enabled,
               use_memory, has_client, store, backend, saved, plain_writes>>

agent_vars == <<meta, raw_log, fs, agent_last>>

vars == <<runner_vars, wrap_vars, agent_vars>>

(***************************************************************************)
(* Bounds of the model.                                                    *)
(***************************************************************************)
MaxCases == 3
MaxOps == 4
MaxAgentCases == 2

(***************************************************************************)
(* Text helpers.                                                           *)
(***************************************************************************)
LowerAlpha == "abcdefghijklmnopqrstuvwxyz"
UpperAlpha == "ABCDEFGHIJKLMNOPQRSTUVWXYZ"

CharAt(s, k) == SubSeq(s, k, k)

\* The upper-case letter of each lower-case letter.
UpperOf ==
    [c \in { CharAt(LowerAlpha, k) : k \in 1..Len(LowerAlpha) } |->
        CharAt(UpperAlpha,
               CHOOSE j \in 1..Len(LowerAlpha) : CharAt(LowerAlpha, j) = c)]

\* str.upper() on one character
UpperChar(c) == IF c \in DOMAIN UpperOf THEN UpperOf[c] ELSE c

RECURSIVE Upper(_)
\* str.upper()
Upper(s) ==
    IF Len(s) = 0 THEN ""
    ELSE UpperChar(CharAt(s, 1)) \o Upper(SubSeq(s, 2, Len(s)))

\* The lower-case letter of each upper-case letter.
LowerOf ==
    [c \in { CharAt(UpperAlpha, k) : k \in 1..Len(UpperAlpha) } |->
        CharAt(LowerAlpha,
               CHOOSE j \in 1..Len(UpperAlpha) : CharAt(UpperAlpha, j) = c)]

\* str.lower() on one character
LowerChar(c) == IF c \in DOMAIN LowerOf THEN LowerOf[c] ELSE c

RECURSIVE Lower(_)
\* str.lower()
Lower(s) ==
    IF Len(s) = 0 THEN ""
    ELSE LowerChar(CharAt(s, 1)) \o Lower(SubSeq(s, 2, Len(s)))

RECURSIVE RStripSlash(_)
\* str.rstrip('/')
RStripSlash(s) ==
    IF Len(s) > 0 /\ CharAt(s, Len(s)) = "/"
    THEN RStripSlash(SubSeq(s, 1, Len(s) - 1))
    ELSE s

Digits == "0123456789"

RECURSIVE ToStr(_)
\* str(n) for a non-negative int
ToStr(n) ==
    IF n < 10 THEN CharAt(Digits, n + 1)
    ELSE ToStr(n \div 10) \o CharAt(Digits, (n % 10) + 1)

RECURSIVE JoinWith(_, _)
\* sep.join(str(s) for s in codes)
JoinWith(sep, codes) ==
    IF Len(codes) = 0 THEN ""
    ELSE IF Len(codes) = 1 THEN ToStr(codes[1])
    ELSE ToStr(codes[1]) \o sep \o JoinWith(sep, Tail(codes))

\* True iff needle occurs in hay (Python's `needle in hay` on str)
Contains(hay, needle) ==
    \E k \in 1..(Len(hay) - Len(needle) + 1) :
        SubSeq(hay, k, k + Len(needle) - 1) = needle

(***************************************************************************)
(* Part 1.  run_native_tests                                               *)
(***************************************************************************)

\* A Python list of ints, or a value that is no container (an int): the
\* test-case dictionaries are not validated anywhere.
StatusList(codes) == [iterable |-> TRUE,  codes |-> codes]
StatusBare(code)  == [iterable |-> FALSE, codes |-> <<code>>]

NoPayload  == [kind |-> "none", of |-> ""]
LoginPayload == [kind |-> "dict", of |-> "username,password"]
ItemPayload  == [kind |-> "dict", of |-> "item_data"]

\* The test-case dictionaries the suites are drawn from: the two of
\* load_test_cases(), CRUD cases as in the examples, a case with a lower-case
\* method, a case with a method the dispatch does not know, and a case whose
\* expected_status is a bare int.
TestCaseTable ==
    { [name |-> "health_check", method |-> "GET", endpoint |-> "/health",
       payload |-> NoPayload, expected_status |-> StatusList(<<200>>),
       requires_json |-> FALSE],
      [name |-> "login_requirements", method |-> "POST", endpoint |-> "/login",
       payload |-> LoginPayload, expected_status |-> StatusList(<<200, 401>>),
       requires_json |-> TRUE],
      [name |-> "item_update", method |-> "put", endpoint |-> "/items/1",
       payload |-> ItemPayload, expected_status |-> StatusList(<<200>>),
       requires_json |-> TRUE],
      [name |-> "item_delete", method |-> "DELETE", endpoint |-> "/items/1",
       payload |-> NoPayload, expected_status |-> StatusList(<<200, 204>>),
       requires_json |-> FALSE],
      [name |-> "item_patch", method |-> "PATCH", endpoint |-> "/items/1",
       payload |-> ItemPayload, expected_status |-> StatusList(<<200>>),
       requires_json |-> TRUE],
      [name |-> "health_bare", method |-> "GET", endpoint |-> "/health",
       payload |-> NoPayload, expected_status |-> StatusBare(200),
       requires_json |-> FALSE] }

\* Ordered suites of at most MaxCases cases, names unique within a suite.
Suites ==
    UNION { { s \in [1..n -> TestCaseTable] :
                \A a, b \in 1..n : a # b => s[a].name # s[b].name }
            : n \in 0..MaxCases }

BaseUrls == {"http://api", "http://api/"}

\* What the target service can answer.
StatusCodes == {200, 401, 500}
RawBodies == {"json_map", "json_array", "json_scalar", "text", "empty"}
Responses == [status : StatusCodes, raw : RawBodies]

\* Transport-level exceptions httpx raises.
TransportErrors ==
    { [cls |-> "ConnectError", msg |-> "connection refused"],
      [cls |-> "ReadTimeout",  msg |-> "timed out"] }

\* str(exc) and repr(exc)
StrExc(e)  == e.msg
ReprExc(e) ==
    IF Contains(e.msg, "'")
    THEN e.cls \o "(\"" \o e.msg \o "\")"
    ELSE e.cls \o "('" \o e.msg \o "')"

UnsupportedMethodError(method) ==
    [cls |-> "ValueError", msg |-> "Unsupported HTTP method: " \o method]
NotIterableError ==
    [cls |-> "TypeError", msg |-> "argument of type 'int' is not iterable"]

\* Mutant of DispatchVerb: an unknown method falls back to GET.
DispatchVerb_DefaultGet(method) ==
    LET upper == Upper(method) IN
    IF upper = "POST" THEN "POST"
    ELSE IF upper = "PUT" THEN "PUT"
    ELSE IF upper = "DELETE" THEN "DELETE"
    ELSE "GET"

\* The verb the if/elif chain of the loop dispatches on; "" when it raises.
DispatchVerb(method) ==
    LET upper == Upper(method) IN
    IF upper = "GET" THEN "GET"
    ELSE IF upper = "POST" THEN "POST"
    ELSE IF upper = "PUT" THEN "PUT"
    ELSE IF upper = "DELETE" THEN "DELETE"
    ELSE ""

\* client.post / client.put pass json=payload; client.get / client.delete
\* pass no body.  The request content is the JSON text of the payload.
SentContent(verb, payload) ==
    IF verb \in {"POST", "PUT"} /\ payload.kind # "none"
    THEN [kind |-> "json_text", of |-> payload.of]
    ELSE NoPayload

\* url = f"{api_base_url.rstrip('/')}{test['endpoint']}"
UrlOf(base, test) == RStripSlash(base) \o test.endpoint

\* response.json(), falling back to response.text
ParsedBody(raw) ==
    IF raw = "json_map" THEN [type |-> "dict", text |-> ""]
    ELSE IF raw = "json_array" THEN [type |-> "list", text |-> ""]
    ELSE IF raw = "json_scalar" THEN [type |-> "scalar", text |-> ""]
    ELSE IF raw = "text" THEN [type |-> "str", text |-> "plain text"]
    ELSE [type |-> "str", text |-> ""]

\* record_and_return(response, ...): the record built from a response
ResponseRecord(verb, url, payload, resp) ==
    [method |-> verb, url |-> url,
     request_body |-> SentContent(verb, payload),
     status_code |-> resp.status,
     response_body |-> ParsedBody(resp.raw)]

\* Mutant of ExceptionRecord: the exception is not passed on to the record.
ExceptionRecord_Unknown(method, url, payload, exc) ==
    [method |-> method, url |-> url,
     request_body |-> payload,
     status_code |-> 0,
     response_body |-> [type |-> "str", text |-> "Unknown error"]]

\* record_and_return(None, ..., exc): the record built from an exception
ExceptionRecord(method, url, payload, exc) ==
    [method |-> method, url |-> url,
     request_body |-> payload,
     status_code |-> 0,
     response_body |-> [type |-> "str", text |-> StrExc(exc)]]

\* Mutant of StatusNotExpected: only the first expected code is accepted.
StatusNotExpected_FirstOnly(status, expected) ==
    status # expected.codes[1]

\* resp.status_code not in expected_status   (for a list)
StatusNotExpected(status, expected) ==
    ~ \E k \in 1..Len(expected.codes) : expected.codes[k] = status

\* requires_json and not isinstance(rec.response_body, (dict, list))
JsonMissing(test, rec) ==
    test.requires_json /\ rec.response_body.type \notin {"dict", "list"}

\* Mutant of Verdict: the JSON check runs before the status check.
Verdict_JsonFirst(test, rec) ==
    IF JsonMissing(test, rec) THEN "json"
    ELSE IF StatusNotExpected(rec.status_code, test.expected_status) THEN "status"
    ELSE "pass"

\* The two checks of the loop body in their order: "status" when the status
\* check fails, else "json" when the JSON check fails, else "pass".
Verdict(test, rec) ==
    IF StatusNotExpected(rec.status_code, test.expected_status) THEN "status"
    ELSE IF JsonMissing(test, rec) THEN "json"
    ELSE "pass"

StatusReason(test, status) ==
    "Expected " \o JoinWith(" or ", test.expected_status.codes) \o " from "
        \o test.endpoint \o ", got " \o ToStr(status)

JsonReason(test) == "Expected JSON response from " \o test.endpoint

ExceptionReason(test, exc) ==
    "Exception calling " \o test.endpoint \o ": " \o ReprExc(exc)

TestFailure(test, reason, rec) ==
    [test_name |-> test.name, reason |-> reason, failed_record |-> rec]

\* TestRunResult(success, request_history, failure); failure None is <<>>
TestRunResult(success, hist, failure) ==
    [success |-> success, request_history |-> hist, failure |-> failure]

\* ---- the run loop: one action per path through one iteration -----------

\* run_native_tests touches no integration wrapper, and neither the log nor
\* the files of the agent.
RunnerFrame == UNCHANGED <<wrap_vars, agent_vars>>

InLoop == pc = "loop" /\ idx <= Len(test_cases)
CurTest == test_cases[idx]
CurUrl == UrlOf(api_base_url, CurTest)
CurVerb == DispatchVerb(CurTest.method)

\* The call client.get/post/put/delete(url, ...) as the instrumented
\* transport sees it.
HttpCall(i, verb, url, served) ==
    [case |-> i, verb |-> verb, url |-> url, served |-> served]

\* What the transport served for a call: a response, or a raised error.
ServedResponse(resp) ==
    [kind |-> "response", status |-> resp.status, raw |-> resp.raw,
     cls |-> "", msg |-> ""]
ServedError(exc) ==
    [kind |-> "error", status |-> 0, raw |-> "", cls |-> exc.cls,
     msg |-> exc.msg]

\* Mutant of ReturnFailure: the failure is noted but the loop goes on.
ReturnFailure_KeepsRunning(test, reason, recs) ==
    /\ history' = history \o recs
    /\ rec_case' = rec_case \o [k \in 1..Len(recs) |-> idx]
    /\ result' = <<TestRunResult(FALSE, history \o recs,
                     <<TestFailure(test, reason, recs[Len(recs)])>>)>>
    /\ pc' = pc
    /\ idx' = idx + 1
    /\ started' = started + 1
    /\ UNCHANGED <<api_base_url, test_cases>>

\* Mutant of ReturnFailure: the failure keeps the first record of the
\* iteration instead of the one appended last.
ReturnFailure_FirstRecord(test, reason, recs) ==
    /\ history' = history \o recs
    /\ rec_case' = rec_case \o [k \in 1..Len(recs) |-> idx]
    /\ result' = <<TestRunResult(FALSE, history \o recs,
                     <<TestFailure(test, reason, recs[1])>>)>>
    /\ pc' = "returned"
    /\ started' = started + 1
    /\ UNCHANGED <<api_base_url, test_cases, idx>>

\* `return TestRunResult(success=False, request_history=history, failure=...)`
\* after the records `recs` of this iteration were appended.
ReturnFailure(test, reason, recs) ==
    /\ history' = history \o recs
    /\ rec_case' = rec_case \o [k \in 1..Len(recs) |-> idx]
    /\ result' = <<TestRunResult(FALSE, history \o recs,
                     <<TestFailure(test, reason, recs[Len(recs)])>>)>>
    /\ pc' = "returned"
    /\ started' = started + 1
    /\ UNCHANGED <<api_base_url, test_cases, idx>>

\* else: raise ValueError(f"Unsupported HTTP method: {method}"), caught by
\* the except clause of the same iteration.
CaseUnsupportedMethod ==
    /\ InLoop
    /\ CurVerb = ""
    /\ LET exc == UnsupportedMethodError(CurTest.method)
           rec == ExceptionRecord(CurTest.method, CurUrl, CurTest.payload, exc)
       IN  ReturnFailure(CurTest, ExceptionReason(CurTest, exc), <<rec>>)
    /\ UNCHANGED http_log
    /\ RunnerFrame

\* The httpx call raises: the except clause records it and returns.
CaseTransportError ==
    /\ InLoop
    /\ CurVerb # ""
    /\ \E exc \in TransportErrors :
         LET rec == ExceptionRecord(CurTest.method, CurUrl, CurTest.payload, exc)
         IN  /\ ReturnFailure(CurTest, ExceptionReason(CurTest, exc), <<rec>>)
             /\ http_log' = Append(http_log,
                    HttpCall(idx, CurVerb, CurUrl, ServedError(exc)))
    /\ RunnerFrame

\* A response arrived and was recorded; `resp.status_code not in
\* expected_status` raises TypeError because expected_status is no
\* container; the except clause records the exception and returns.
CaseStatusCheckRaises ==
    /\ InLoop
    /\ CurVerb # ""
    /\ ~CurTest.expected_status.iterable
    /\ \E resp \in Responses :
         LET rec1 == ResponseRecord(CurVerb, CurUrl, CurTest.payload, resp)
             exc  == NotIterableError
             rec2 == ExceptionRecord(CurTest.method, CurUrl, CurTest.payload, exc)
         IN  /\ ReturnFailure(CurTest, ExceptionReason(CurTest, exc),
                              <<rec1, rec2>>)
             /\ http_log' = Append(http_log,
                    HttpCall(idx, CurVerb, CurUrl, ServedResponse(resp)))
    /\ RunnerFrame

\* A response arrived whose status is not in expected_status.
CaseStatusFails ==
    /\ InLoop
    /\ CurVerb # ""
    /\ CurTest.expected_status.iterable
    /\ \E resp \in Responses :
         LET rec == ResponseRecord(CurVerb, CurUrl, CurTest.payload, resp)
         IN  /\ Verdict(CurTest, rec) = "status"
             /\ ReturnFailure(CurTest, StatusReason(CurTest, resp.status),
                              <<rec>>)
             /\ http_log' = Append(http_log,
                    HttpCall(idx, CurVerb, CurUrl, ServedResponse(resp)))
    /\ RunnerFrame

\* The status is expected, JSON is required and the body is no dict or list.
CaseJsonFails ==
    /\ InLoop
    /\ CurVerb # ""
    /\ CurTest.expected_status.iterable
    /\ \E resp \in Responses :
         LET rec == ResponseRecord(CurVerb, CurUrl, CurTest.payload, resp)
         IN  /\ Verdict(CurTest, rec) = "json"
             /\ ReturnFailure(CurTest, JsonReason(CurTest), <<rec>>)
             /\ http_log' = Append(http_log,
                    HttpCall(idx, CurVerb, CurUrl, ServedResponse(resp)))
    /\ RunnerFrame

\* Both checks pass: the loop goes on with the next case.
CasePasses ==
    /\ InLoop
    /\ CurVerb # ""
    /\ CurTest.expected_status.iterable
    /\ \E resp \in Responses :
         LET rec == ResponseRecord(CurVerb, CurUrl, CurTest.payload, resp)
         IN  /\ Verdict(CurTest, rec) = "pass"
             /\ history' = Append(history, rec)
             /\ rec_case' = Append(rec_case, idx)
             /\ http_log' = Append(http_log,
                    HttpCall(idx, CurVerb, CurUrl, ServedResponse(resp)))
    /\ idx' = idx + 1
    /\ started' = started + 1
    /\ UNCHANGED <<api_base_url, test_cases, pc, result>>
    /\ RunnerFrame

\* The loop is exhausted: `return TestRunResult(success=True, ...)`.
AllPassed ==
    /\ pc = "loop"
    /\ idx > Len(test_cases)
    /\ result' = <<TestRunResult(TRUE, history, <<>>)>>
    /\ pc' = "returned"
    /\ UNCHANGED <<api_base_url, test_cases, idx, history, http_log,
                   rec_case, started>>
    /\ RunnerFrame

\* No integration wrapper is constructed.
NoWrapper ==
    /\ wrapper = ""
    /\ ops = 0
    /\ net_calls = 0
    /\ last = [op |-> "", raised |-> FALSE]
    /\ config = <<>>
    /\ sky_enabled = FALSE
    /\ par_enabled = FALSE
    /\ use_memory = FALSE
    /\ has_client = FALSE
    /\ store = <<>>
    /\ backend = <<>>
    /\ saved = <<>>
    /\ plain_writes = FALSE

\* run_agent has not been called: no log, no file, no diagnosis.
AgentIdle ==
    /\ meta = <<>>
    /\ raw_log = <<>>
    /\ fs = {}
    /\ agent_last = [op |-> ""]

RunnerInit ==
    /\ AgentIdle
    /\ api_base_url \in BaseUrls
    /\ test_cases \in Suites
    /\ pc = "loop"
    /\ idx = 1
    /\ history = <<>>
    /\ result = <<>>
    /\ http_log = <<>>
    /\ rec_case = <<>>
    /\ started = 0
    /\ NoWrapper

RunnerNext ==
    \/ CaseUnsupportedMethod
    \/ CaseTransportError
    \/ CaseStatusCheckRaises
    \/ CaseStatusFails
    \/ CaseJsonFails
    \/ CasePasses
    \/ AllPassed

Init == RunnerInit

Next == RunnerNext

Spec == Init /\ [][Next]_vars

(***************************************************************************)
(* Part 2.  The fail-soft wrappers of verifypulse/integrations.            *)
(*                                                                         *)
(* A behaviour of WrapSpec constructs one instance of one wrapper class    *)
(* and calls its operations, at most MaxOps of them.  Optional[str]        *)
(* arguments and unset environment variables are the empty string: None    *)
(* and "" are both falsy, and the code only tests them for truth.          *)
(***************************************************************************)

\* run_native_tests has not been called.
RunnerIdle ==
    /\ AgentIdle
    /\ api_base_url = ""
    /\ test_cases = <<>>
    /\ pc = "idle"
    /\ idx = 1
    /\ history = <<>>
    /\ result = <<>>
    /\ http_log = <<>>
    /\ rec_case = <<>>
    /\ started = 0

\* The wrappers do not touch the state of run_native_tests and run_agent.
WrapFrame == UNCHANGED <<runner_vars, agent_vars>>

\* Python's `a or b` on two strings
PyOr(a, b) == IF a # "" THEN a ELSE b

NoReply == [kind |-> "none"]

\* ---- SkyflowClient -------------------------------------------------------

SkyConfigs ==
    [vault_id : {"", "vault1"}, api_token : {"", "tok"},
     env_vault_id : {"", "vaultE"}, env_token : {"", "tokE"},
     enabled : {"None", "True", "False"}]

\* Mutant of SkyEnabled: an explicit enabled argument overrides the check
\* of the configuration.
SkyEnabled_ArgWins(cfg) ==
    IF cfg.enabled = "None"
    THEN PyOr(cfg.vault_id, cfg.env_vault_id) # ""
         /\ PyOr(cfg.api_token, cfg.env_token) # ""
    ELSE cfg.enabled = "True"

\* SkyflowClient.__init__: self.enabled
SkyEnabled(cfg) ==
    LET vault == PyOr(cfg.vault_id, cfg.env_vault_id)
        token == PyOr(cfg.api_token, cfg.env_token)
        configured == vault # "" /\ token # ""
    IN  IF cfg.enabled = "None" THEN configured
        ELSE cfg.enabled = "True" /\ configured

\* The records handed to tokenize_record, and the tokens of the service.
PiiRecords ==
    { [ssn |-> "123-45-6789", email |-> "user@example.com"],
      [ssn |-> "987-65-4321", email |-> ""] }
SkyTokens == [ssn |-> "tok-ssn-1", email |-> "tok-email-1"]

\* Bodies of a Skyflow response: not JSON; a JSON array; JSON objects with
\* and without "records", with an empty "records" list, and with a first
\* record that has no, empty, null or filled "fields".
SkyBodies ==
    { [json |-> FALSE, top |-> "",     records |-> "absent", fields |-> "absent"],
      [json |-> TRUE,  top |-> "list", records |-> "absent", fields |-> "absent"],
      [json |-> TRUE,  top |-> "dict", records |-> "absent", fields |-> "absent"],
      [json |-> TRUE,  top |-> "dict", records |-> "empty",  fields |-> "absent"],
      [json |-> TRUE,  top |-> "dict", records |-> "one",    fields |-> "absent"],
      [json |-> TRUE,  top |-> "dict", records |-> "one",    fields |-> "empty"],
      [json |-> TRUE,  top |-> "dict", records |-> "one",    fields |-> "null"],
      [json |-> TRUE,  top |-> "dict", records |-> "one",    fields |-> "tokens"] }

SkyStatuses == {200, 201, 401, 500}

SkyReplies ==
    { [kind |-> "error", status |-> 0, body |-> b] :
        b \in { [json |-> FALSE, top |-> "", records |-> "absent",
                 fields |-> "absent"] } }
    \cup { [kind |-> "response", status |-> st, body |-> b] :
             st \in SkyStatuses, b \in SkyBodies }

\* The three fallback returns of tokenize_record
SkyFallback(record) ==
    [enabled |-> FALSE, original |-> record, tokenized |-> record]

\* data.get("records", [{}])[0].get("fields", {}) or record, for a JSON
\* object `data` whose first record exists
SkyTokenizedFields(record, body) ==
    IF body.fields = "tokens" THEN SkyTokens ELSE record

\* tokenize_record with self.enabled true, given what httpx.post did
SkyResult(record, reply) ==
    IF reply.kind = "error" THEN SkyFallback(record)
    ELSE IF reply.status \div 100 # 2 THEN SkyFallback(record)
    ELSE IF ~reply.body.json THEN SkyFallback(record)
    ELSE IF reply.body.top # "dict" THEN SkyFallback(record)
    ELSE IF reply.body.records = "empty" THEN SkyFallback(record)
    ELSE [enabled |-> TRUE, original |-> record,
          tokenized |-> SkyTokenizedFields(record, reply.body)]

SkyflowInit ==
    /\ RunnerIdle
    /\ wrapper = "skyflow"
    /\ config \in SkyConfigs
    /\ sky_enabled = SkyEnabled(config)
    /\ ops = 0
    /\ net_calls = 0
    /\ last = [op |-> "", raised |-> FALSE]
    /\ par_enabled = FALSE
    /\ use_memory = FALSE
    /\ has_client = FALSE
    /\ store = <<>>
    /\ backend = <<>>
    /\ saved = <<>>
    /\ plain_writes = FALSE

\* SkyflowClient.tokenize_record
TokenizeRecord ==
    /\ wrapper = "skyflow"
    /\ ops < MaxOps
    /\ \E record \in PiiRecords :
         IF ~sky_enabled
         THEN /\ last' = [op |-> "tokenize_record", raised |-> FALSE,
                          arg |-> record, reply |-> NoReply,
                          ret |-> SkyFallback(record)]
              /\ net_calls' = net_calls
         ELSE \E reply \in SkyReplies :
                /\ last' = [op |-> "tokenize_record", raised |-> FALSE,
                            arg |-> record, reply |-> reply,
                            ret |-> SkyResult(record, reply)]
                /\ net_calls' = net_calls + 1
    /\ ops' = ops + 1
    /\ UNCHANGED <<wrapper, config, sky_enabled, par_enabled, use_memory,
                   has_client, store, backend, saved, plain_writes>>
    /\ WrapFrame

\* ---- ParallelClient ------------------------------------------------------

ParConfigs == [api_key : {"", "key1"}, env_key : {"", "keyE"}]

\* ParallelClient.__init__: self.enabled
ParEnabled(cfg) == PyOr(cfg.api_key, cfg.env_key) # ""

ParStatuses == {200, 429, 500}

\* What the POST /v1/web/search did: raised, or answered with a status and
\* a body that is JSON or not.
ParReplies ==
    { [kind |-> "error", status |-> 0, json |-> FALSE,
       msg |-> "connection refused"] }
    \cup { [kind |-> "response", status |-> st, json |-> j,
            msg |-> "status " \o ToStr(st)] :
             st \in ParStatuses, j \in BOOLEAN }

ParQueries == {"login api"}

ParDisabledResult(query) ==
    [enabled |-> FALSE, reason |-> "Parallel API key missing",
     query |-> query, raw |-> ""]

ParFailedResult(query, msg) ==
    [enabled |-> FALSE, reason |-> "Parallel request failed: " \o msg,
     query |-> query, raw |-> ""]

ParEnabledResult(query) ==
    [enabled |-> TRUE, reason |-> "", query |-> query, raw |-> "data"]

\* Nothing is returned when search_web raises; the fields are placeholders.
ParNoReturn(query) ==
    [enabled |-> FALSE, reason |-> "", query |-> query, raw |-> ""]

\* search_web: whether it raised, whether it called the network, and what
\* it returned.  The POST and raise_for_status() are inside the try;
\* resp.json() comes after it.
ParSearchOutcome(enabled, query, reply) ==
    IF ~enabled
    THEN [raised |-> FALSE, called |-> FALSE, ret |-> ParDisabledResult(query)]
    ELSE IF reply.kind = "error" \/ reply.status \div 100 # 2
    THEN [raised |-> FALSE, called |-> TRUE,
          ret |-> ParFailedResult(query, reply.msg)]
    ELSE IF ~reply.json
    THEN [raised |-> TRUE, called |-> TRUE, ret |-> ParNoReturn(query)]
    ELSE [raised |-> FALSE, called |-> TRUE, ret |-> ParEnabledResult(query)]

ParallelInit ==
    /\ RunnerIdle
    /\ wrapper = "parallel"
    /\ config \in ParConfigs
    /\ par_enabled = ParEnabled(config)
    /\ ops = 0
    /\ net_calls = 0
    /\ last = [op |-> "", raised |-> FALSE]
    /\ sky_enabled = FALSE
    /\ use_memory = FALSE
    /\ has_client = FALSE
    /\ store = <<>>
    /\ backend = <<>>
    /\ saved = <<>>
    /\ plain_writes = FALSE

\* The replies a call can see: none when the wrapper is disabled.
ParRepliesFor(enabled) == IF enabled THEN ParReplies ELSE {NoReply}

\* self.search_web(query) called under the name `op`
ParCall(op, query) ==
    /\ wrapper = "parallel"
    /\ ops < MaxOps
    /\ \E reply \in ParRepliesFor(par_enabled) :
         LET out == ParSearchOutcome(par_enabled, query, reply)
         IN  /\ last' = [op |-> op, raised |-> out.raised, arg |-> query,
                         reply |-> reply, ret |-> out.ret]
             /\ net_calls' = net_calls + (IF out.called THEN 1 ELSE 0)
    /\ ops' = ops + 1
    /\ UNCHANGED <<wrapper, config, sky_enabled, par_enabled, use_memory,
                   has_client, store, backend, saved, plain_writes>>
    /\ WrapFrame

\* ParallelClient.search_web
SearchWeb == \E query \in ParQueries : ParCall("search_web", query)

\* ParallelClient.search_security_guidelines
SearchSecurityGuidelines ==
    \E requirement \in ParQueries :
        ParCall("search_security_guidelines",
                requirement \o " API security guidelines best practices login authentication")

\* ParallelClient.search_login_checklist
SearchLoginChecklist ==
    \E requirement \in ParQueries :
        ParCall("search_login_checklist",
                requirement \o " API login validation checklist test cases")

RECURSIVE StripSpaces(_)
\* str.strip() for blanks
StripSpaces(s) ==
    IF Len(s) > 0 /\ CharAt(s, 1) = " " THEN StripSpaces(SubSeq(s, 2, Len(s)))
    ELSE IF Len(s) > 0 /\ CharAt(s, Len(s)) = " "
    THEN StripSpaces(SubSeq(s, 1, Len(s) - 1))
    ELSE s

\* ---- planner.py: execute_pipeline on a ParallelClient --------------------

\* The keys of the dict search_web returned, in insertion order: what
\* `for guideline in guidelines` walks.
ParResultKeys(ret) ==
    IF ret.enabled THEN <<"enabled", "query", "raw">>
    ELSE <<"enabled", "reason", "query">>

\* build_test_plan: the two base cases of the login endpoint
BaseTests ==
    << [id |-> "TC-1", category |-> "happy", description |-> "Valid login"],
       [id |-> "TC-2", category |-> "negative",
        description |-> "Invalid password"] >>

RECURSIVE EnrichPlan(_, _, _)
\* The loop of step c) from position i on: one security case is appended
\* for every item that is not blank.
EnrichPlan(tests, guidelines, i) ==
    IF i > Len(guidelines) THEN tests
    ELSE IF guidelines[i] # "" /\ StripSpaces(guidelines[i]) # ""
    THEN EnrichPlan(
             Append(tests,
                    [id |-> "TC-" \o ToStr(Len(tests) + 1),
                     category |-> "security",
                     description |-> "Security check: " \o guidelines[i]]),
             guidelines, i + 1)
    ELSE EnrichPlan(tests, guidelines, i + 1)

\* What the fail-soft Postman and Sanity clients hand back.
PlanCollectionIds == {"a", "failed_collection_id"}
PlanReportIds == {"report-1"}

\* parallel.search_security_guidelines("OWASP API security login checklist")
SecurityQuery ==
    "OWASP API security login checklist"
        \o " API security guidelines best practices login authentication"

\* execute_pipeline(requirement_text) as far as it depends on the
\* ParallelClient: the base plan, the search, the loop over what the search
\* returned, and the result dict.  A search that raises ends the call.
ExecutePipeline ==
    /\ wrapper = "parallel"
    /\ ops < MaxOps
    /\ \E reply \in ParRepliesFor(par_enabled),
          collection_id \in PlanCollectionIds, report_id \in PlanReportIds :
         LET out == ParSearchOutcome(par_enabled, SecurityQuery, reply)
             tests == EnrichPlan(BaseTests, ParResultKeys(out.ret), 1)
         IN  /\ last' =
                   IF out.raised
                   THEN [op |-> "execute_pipeline", raised |-> TRUE,
                         reply |-> reply, search |-> out.ret]
                   ELSE [op |-> "execute_pipeline", raised |-> FALSE,
                         reply |-> reply, search |-> out.ret,
                         plan_tests |-> tests,
                         ret |-> [collection_id |-> collection_id,
                                  report_id |-> report_id,
                                  endpoints |-> 1,
                                  tests |-> Len(tests)]]
             /\ net_calls' = net_calls + (IF out.called THEN 1 ELSE 0)
    /\ ops' = ops + 1
    /\ UNCHANGED <<wrapper, config, sky_enabled, par_enabled, use_memory,
                   has_client, store, backend, saved, plain_writes>>
    /\ WrapFrame

\* ---- VerifyPulseRedis ----------------------------------------------------

Absent == "<absent>"

\* Run ids (collection ids) and the payloads the pipeline returns for them.
RunIds == {"a", "b"}
RunPayloads ==
    { [collection_id |-> id, tests |-> n] : id \in RunIds, n \in {2, 3} }

\* key = f"run:{run_id}"
RunKey(run_id) == "run:" \o run_id

RedisKeys == {"run:a", "run:b", "requirement:1"}
RedisValues == {"v1", ""}

\* The order in which a listing of keys is walked.
KeyOrder ==
    <<"failure_log:4a8e2d:1", "failure_log:4a8e2d:2", "requirement:1",
      "run:a", "run:b">>

\* str.startswith(prefix)
StartsWith(s, prefix) ==
    Len(s) >= Len(prefix) /\ SubSeq(s, 1, Len(prefix)) = prefix

\* ---- agent_pipeline.py: the failure log of run_full_agent_pipeline -------

\* json.dumps of a str, without the enclosing quotes: each double quote is
\* escaped.
RECURSIVE JsonEscape(_)
JsonEscape(s) ==
    IF Len(s) = 0 THEN ""
    ELSE (IF CharAt(s, 1) = "\"" THEN "\\\"" ELSE CharAt(s, 1))
             \o JsonEscape(SubSeq(s, 2, Len(s)))

\* The response body of the mock's failing call, before json.dumps
ResponseData == [user_id |-> 123, ssn |-> "123-45-6789"]

\* json.dumps(response_data): user_id and ssn, and the keys the tokens
\* added, in insertion order
ResponseJson(data) ==
    "{\"user_id\": " \o ToStr(data.user_id)
        \o ", \"ssn\": \"" \o data.ssn \o "\""
        \o (IF "email" \in DOMAIN data
            THEN ", \"email\": \"" \o data.email \o "\"" ELSE "")
        \o "}"

\* json.loads(failure_response)
ResponseLoads(text) ==
    CHOOSE data \in {ResponseData} : ResponseJson(data) = text

\* The collection ids given to the pipeline.
PipelineCollections == {"col-login", "col-SSN"}

\* PostmanTestRunner.run_collection: the mock fails the collections whose id
\* mentions ssn or grades.
RunCollection(collection_id) ==
    LET lower == Lower(collection_id) IN
    IF Contains(lower, "ssn") \/ Contains(lower, "grades")
    THEN [status |-> "FAILED", test_ran |-> 5, test_failed |-> 1,
          failure_details |->
              [endpoint |-> "/api/v1/grades", method |-> "GET",
               error_type |->
                   "AssertionError: SSN field is present in response",
               full_response |-> ResponseJson(ResponseData),
               request_headers |-> [Authorization |-> "Bearer token"]]]
    ELSE [status |-> "PASSED", test_ran |-> 5, test_failed |-> 0]

\* key.lower() in ["ssn", "email", "phone", "credit_card"]
PiiNames == {"ssn", "email", "phone", "credit_card"}

\* pii_fields: the entries of the response whose key names a PII field
PiiFields(data) ==
    [k \in { k \in DOMAIN data : Lower(k) \in PiiNames } |-> data[k]]

\* tokenized_response: the response with every entry of
\* tokenize_result["tokenized"] written over it when the result is enabled
\* and has tokens, the failure response unchanged otherwise.
TokenizedResponse(failure_response, tokenize_result) ==
    IF tokenize_result.enabled /\ DOMAIN tokenize_result.tokenized # {}
    THEN ResponseJson(tokenize_result.tokenized
                          @@ ResponseLoads(failure_response))
    ELSE failure_response

\* raw_failure_log
PipelineLog(timestamp, commit_hash, test_result, requirement, tokenized) ==
    [timestamp |-> timestamp,
     commit_hash |-> commit_hash,
     test_result |-> test_result,
     requirement_tested |-> requirement,
     agent_version |-> "1.0.0",
     tokenized_response |-> tokenized]

\* json.dumps(raw_failure_log)
LogJson(log) ==
    LET details == log.test_result.failure_details IN
    "{\"timestamp\": " \o ToStr(log.timestamp)
        \o ", \"commit_hash\": \"" \o log.commit_hash
        \o "\", \"test_result\": {\"status\": \"" \o log.test_result.status
        \o "\", \"test_ran\": " \o ToStr(log.test_result.test_ran)
        \o ", \"test_failed\": " \o ToStr(log.test_result.test_failed)
        \o ", \"failure_details\": {\"endpoint\": \"" \o details.endpoint
        \o "\", \"method\": \"" \o details.method
        \o "\", \"error_type\": \"" \o details.error_type
        \o "\", \"full_response\": \"" \o JsonEscape(details.full_response)
        \o "\", \"request_headers\": {\"Authorization\": \""
        \o details.request_headers.Authorization
        \o "\"}}}, \"requirement_tested\": \"" \o log.requirement_tested
        \o "\", \"agent_version\": \"" \o log.agent_version
        \o "\", \"tokenized_response\": \""
        \o JsonEscape(log.tokenized_response) \o "\"}"

\* time.time() at the two points a run reads the clock, in whole seconds
PipelineTimes == {1, 2}

\* The requirement and the commit hash of a run (the default "4a8e2d").
PipelineRequirement == "no ssn in grades"
PipelineCommit == "4a8e2d"

\* f"failure_log:{commit_hash}:{int(time.time())}"
LogKey(commit_hash, timestamp) ==
    "failure_log:" \o commit_hash \o ":" \o ToStr(timestamp)

\* What skyflow_client.tokenize_record(pii_fields) can return: the fallback
\* of a disabled client, or the result of an enabled one for each thing the
\* service can do.
TokenizeResults(enabled, pii_fields) ==
    IF enabled THEN { SkyResult(pii_fields, reply) : reply \in SkyReplies }
    ELSE {SkyFallback(pii_fields)}

\* Every failure log a run of the pipeline can build.
PipelineLogs ==
    LET failed == RunCollection("col-SSN")
        response == failed.failure_details.full_response
        pii == PiiFields(ResponseLoads(response))
        results == TokenizeResults(TRUE, pii) \cup TokenizeResults(FALSE, pii)
    IN  { PipelineLog(ts, PipelineCommit, failed, PipelineRequirement,
                      TokenizedResponse(response, r)) :
            ts \in PipelineTimes, r \in results }

\* json.dumps(raw_failure_log), tabulated over the logs
LogJsonOf == [log \in PipelineLogs |-> LogJson(log)]

\* ---- VerifyPulseRedis, continued -----------------------------------------

\* json.dumps(payload)
JsonDumps(payload) ==
    "{\"collection_id\": \"" \o payload.collection_id
        \o "\", \"tests\": " \o ToStr(payload.tests) \o "}"

\* json.loads(raw): the payload or the failure log whose JSON text raw is,
\* or a JSONDecodeError for a text that is not JSON.
JsonLoads(raw) ==
    IF StartsWith(raw, "{\"timestamp\"")
    THEN IF \E log \in PipelineLogs : LogJsonOf[log] = raw
         THEN [raised |-> FALSE,
               value |-> CHOOSE log \in PipelineLogs : LogJsonOf[log] = raw]
         ELSE [raised |-> TRUE]
    ELSE IF \E payload \in RunPayloads : JsonDumps(payload) = raw
    THEN [raised |-> FALSE,
          value |-> CHOOSE payload \in RunPayloads : JsonDumps(payload) = raw]
    ELSE [raised |-> TRUE]

\* No run was saved.
NoRuns == [id \in RunIds |-> <<>>]
KeyPatterns == {"*", "run:*", "requirement"}

EmptyMap == [k \in RedisKeys |-> Absent]

\* Constructor argument `url` (given or None) and what load_config() yields
\* for REDIS_URL ("<raises>" when Config() raises).
RedisConfigs ==
    { [url_given |-> TRUE, url |-> u, cfg_url |-> ""] :
        u \in {"", "  ", "redis://up", "redis://down"} }
    \cup { [url_given |-> FALSE, url |-> "", cfg_url |-> c] :
             c \in {"<raises>", "", "redis://up"} }

\* The servers that answer the ping of the constructor.
ReachableUrls == {"redis://up"}

\* __init__: the URL after `if url is None:`
EffectiveUrl(cfg) ==
    IF cfg.url_given THEN cfg.url
    ELSE IF cfg.cfg_url = "<raises>" THEN ""
    ELSE cfg.cfg_url

\* __init__: `not url or not url.strip()`
UrlMissing(url) == url = "" \/ StripSpaces(url) = ""

RedisInit ==
    /\ RunnerIdle
    /\ wrapper = "redis"
    /\ config \in RedisConfigs
    /\ LET url == EffectiveUrl(config) IN
       IF UrlMissing(url)
       THEN /\ use_memory = TRUE
            /\ has_client = FALSE
            /\ net_calls = 0
       ELSE IF url \in ReachableUrls
       THEN /\ use_memory = FALSE
            /\ has_client = TRUE
            /\ net_calls = 1
       ELSE /\ use_memory = TRUE
            /\ has_client = FALSE
            /\ net_calls = 1
    /\ store = EmptyMap
    /\ backend \in {EmptyMap, [EmptyMap EXCEPT !["run:a"] = "v1"]}
    /\ saved = NoRuns
    /\ plain_writes = FALSE
    /\ ops = 0
    /\ last = [op |-> "", raised |-> FALSE]
    /\ sky_enabled = FALSE
    /\ par_enabled = FALSE

\* dict.get(key): None for a missing key
MemoryGet(map, key) ==
    IF map[key] = Absent THEN [found |-> FALSE, value |-> ""]
    ELSE [found |-> TRUE, value |-> map[key]]

\* result = self.client.get(key); return result if result else None
ClientGet(map, key) ==
    IF map[key] = Absent \/ map[key] = "" THEN [found |-> FALSE, value |-> ""]
    ELSE [found |-> TRUE, value |-> map[key]]

MemoryKeys_Substring(map, pattern) ==
    { k \in DOMAIN map : map[k] # Absent /\ Contains(k, pattern) }

\* keys() on the in-memory store; the list is given as the set of its keys
MemoryKeys(map, pattern) ==
    LET present == { k \in DOMAIN map : map[k] # Absent } IN
    IF pattern = "*" THEN present
    ELSE IF CharAt(pattern, Len(pattern)) = "*"
    THEN { k \in present : StartsWith(k, SubSeq(pattern, 1, Len(pattern) - 1)) }
    ELSE { k \in present : Contains(k, pattern) }

\* KEYS pattern on the server: glob matching, for patterns with at most a
\* trailing star
ClientKeys(map, pattern) ==
    LET present == { k \in DOMAIN map : map[k] # Absent } IN
    IF CharAt(pattern, Len(pattern)) = "*"
    THEN { k \in present : StartsWith(k, SubSeq(pattern, 1, Len(pattern) - 1)) }
    ELSE { k \in present : k = pattern }

UsesClient_IgnoresFlag == has_client

\* Whether a call on self.client is attempted, as the code decides it.
UsesClient == ~use_memory /\ has_client

\* set / store_requirement under the name `op`: in memory, or on the
\* server, or on the server failing and then in memory.
RedisWrite(op, key, value) ==
    /\ wrapper = "redis"
    /\ ops < MaxOps
    /\ \/ /\ use_memory
          /\ store' = [store EXCEPT ![key] = value]
          /\ UNCHANGED <<backend, use_memory, net_calls>>
          /\ last' = [op |-> op, raised |-> FALSE, key |-> key,
                      value |-> value, via |-> "memory"]
       \/ /\ UsesClient
          /\ backend' = [backend EXCEPT ![key] = value]
          /\ net_calls' = net_calls + 1
          /\ UNCHANGED <<store, use_memory>>
          /\ last' = [op |-> op, raised |-> FALSE, key |-> key,
                      value |-> value, via |-> "client"]
       \/ /\ UsesClient
          /\ net_calls' = net_calls + 1
          /\ use_memory' = TRUE
          /\ store' = [store EXCEPT ![key] = value]
          /\ UNCHANGED backend
          /\ last' = [op |-> op, raised |-> FALSE, key |-> key,
                      value |-> value, via |-> "fallback"]
    /\ ops' = ops + 1
    /\ UNCHANGED <<wrapper, config, sky_enabled, par_enabled, has_client>>
    /\ WrapFrame

\* get / get_requirement under the name `op`
RedisRead(op, key) ==
    /\ wrapper = "redis"
    /\ ops < MaxOps
    /\ \/ /\ use_memory
          /\ UNCHANGED <<use_memory, net_calls>>
          /\ last' = [op |-> op, raised |-> FALSE, key |-> key,
                      ret |-> MemoryGet(store, key), via |-> "memory"]
       \/ /\ UsesClient
          /\ net_calls' = net_calls + 1
          /\ UNCHANGED use_memory
          /\ last' = [op |-> op, raised |-> FALSE, key |-> key,
                      ret |-> ClientGet(backend, key), via |-> "client"]
       \/ /\ UsesClient
          /\ net_calls' = net_calls + 1
          /\ use_memory' = TRUE
          /\ last' = [op |-> op, raised |-> FALSE, key |-> key,
                      ret |-> MemoryGet(store, key), via |-> "fallback"]
    /\ ops' = ops + 1
    /\ UNCHANGED <<wrapper, config, sky_enabled, par_enabled, has_client,
                   store, backend, saved, plain_writes>>
    /\ WrapFrame

\* VerifyPulseRedis.set
RedisSet ==
    /\ \E k \in RedisKeys, v \in RedisValues : RedisWrite("set", k, v)
    /\ plain_writes' = TRUE
    /\ UNCHANGED saved

\* VerifyPulseRedis.store_requirement
StoreRequirement ==
    /\ \E k \in RedisKeys, v \in RedisValues :
          RedisWrite("store_requirement", k, v)
    /\ plain_writes' = TRUE
    /\ UNCHANGED saved

\* VerifyPulseRedis.get
RedisGet == \E k \in RedisKeys : RedisRead("get", k)

\* VerifyPulseRedis.get_requirement
GetRequirement == \E k \in RedisKeys : RedisRead("get_requirement", k)

\* VerifyPulseRedis.keys
RedisKeysOp ==
    /\ wrapper = "redis"
    /\ ops < MaxOps
    /\ \E pattern \in KeyPatterns :
       \/ /\ use_memory
          /\ UNCHANGED <<use_memory, net_calls>>
          /\ last' = [op |-> "keys", raised |-> FALSE, pattern |-> pattern,
                      ret |-> MemoryKeys(store, pattern), via |-> "memory"]
       \/ /\ UsesClient
          /\ net_calls' = net_calls + 1
          /\ UNCHANGED use_memory
          /\ last' = [op |-> "keys", raised |-> FALSE, pattern |-> pattern,
                      ret |-> ClientKeys(backend, pattern), via |-> "client"]
       \/ /\ UsesClient
          /\ net_calls' = net_calls + 1
          /\ use_memory' = TRUE
          /\ last' = [op |-> "keys", raised |-> FALSE, pattern |-> pattern,
                      ret |-> MemoryKeys(store, pattern), via |-> "fallback"]
    /\ ops' = ops + 1
    /\ UNCHANGED <<wrapper, config, sky_enabled, par_enabled, has_client,
                   store, backend, saved, plain_writes>>
    /\ WrapFrame

\* VerifyPulseRedis.save_run_result: set(key, json.dumps(payload)), with the
\* fail-soft behaviour of set.  The run id is the collection id of the
\* payload, as run_endpoint passes it.
SaveRunResult ==
    \E run_id \in RunIds, payload \in RunPayloads :
        /\ payload.collection_id = run_id
        /\ RedisWrite("save_run_result", RunKey(run_id), JsonDumps(payload))
        /\ saved' = [saved EXCEPT ![run_id] = <<payload>>]
        /\ UNCHANGED plain_writes

\* The keys of a listing, in the order they are walked.
KeyList(keyset) == SelectSeq(KeyOrder, LAMBDA k : k \in keyset)

\* list_run_history, the body of the loop for one raw value: `if not raw:
\* continue`, then json.loads, a text that does not parse being skipped.
HistoryEntry(got) ==
    IF ~got.found \/ got.value = "" THEN <<>>
    ELSE IF JsonLoads(got.value).raised THEN <<>>
    ELSE <<JsonLoads(got.value).value>>

RECURSIVE HistoryEntries(_, _, _)
\* list_run_history, the loop over the keys from position i on; the get of
\* the keys before position `failing` is answered by the server, the get at
\* that position fails, and from then on the in-memory store answers.
HistoryEntries(keylist, i, failing) ==
    IF i > Len(keylist) THEN <<>>
    ELSE HistoryEntry(IF i < failing THEN ClientGet(backend, keylist[i])
                      ELSE MemoryGet(store, keylist[i]))
         \o HistoryEntries(keylist, i + 1, failing)

\* VerifyPulseRedis.list_run_history: keys("run:*") and one get per key.
\* `failing` is the position of the call on the server that fails: 0 for
\* the keys call, i for the get of the i-th key, beyond the list for none.
ListRunHistory ==
    /\ wrapper \in {"redis", "pipeline"}
    /\ ops < MaxOps
    /\ \/ /\ use_memory
          /\ UNCHANGED <<use_memory, net_calls>>
          /\ last' = [op |-> "list_run_history", raised |-> FALSE,
                      ret |-> HistoryEntries(
                                 KeyList(MemoryKeys(store, "run:*")), 1, 0),
                      via |-> "memory"]
       \/ /\ UsesClient
          /\ net_calls' = net_calls + 1
          /\ use_memory' = TRUE
          /\ last' = [op |-> "list_run_history", raised |-> FALSE,
                      ret |-> HistoryEntries(
                                 KeyList(MemoryKeys(store, "run:*")), 1, 0),
                      via |-> "fallback"]
       \/ /\ UsesClient
          /\ LET keylist == KeyList(ClientKeys(backend, "run:*")) IN
             \E failing \in 1..(Len(keylist) + 1) :
                /\ net_calls' = net_calls + 1
                       + (IF failing > Len(keylist) THEN Len(keylist)
                          ELSE failing)
                /\ use_memory' = (failing <= Len(keylist))
                /\ last' = [op |-> "list_run_history", raised |-> FALSE,
                            ret |-> HistoryEntries(keylist, 1, failing),
                            via |-> IF failing <= Len(keylist)
                                    THEN "fallback" ELSE "client"]
    /\ ops' = ops + 1
    /\ UNCHANGED <<wrapper, config, sky_enabled, par_enabled, has_client,
                   store, backend, saved, plain_writes>>
    /\ WrapFrame

\* ---- the specification of the wrappers -----------------------------------

WrapInit == SkyflowInit \/ ParallelInit \/ RedisInit

WrapNext ==
    \/ TokenizeRecord
    \/ SearchWeb
    \/ SearchSecurityGuidelines
    \/ SearchLoginChecklist
    \/ ExecutePipeline
    \/ RedisSet
    \/ StoreRequirement
    \/ RedisGet
    \/ GetRequirement
    \/ RedisKeysOp
    \/ SaveRunResult
    \/ ListRunHistory

WrapSpec == WrapInit /\ [][WrapNext]_vars

(***************************************************************************)
(* Part 3.  verifypulse/api_server.py -- POST /run and GET /history.       *)
(*                                                                         *)
(* A behaviour of ApiSpec is one server process answering at most MaxOps   *)
(* requests.  Each handler constructs its own VerifyPulseRedis() from the  *)
(* REDIS_URL of the configuration and drops it when it returns; what       *)
(* outlives a request is the content of the Redis server.  use_memory and  *)
(* has_client are those of the instance of the last request, whose _store  *)
(* starts empty.                                                           *)
(***************************************************************************)

\* REDIS_URL as load_config() yields it.
ApiConfigs ==
    { [url_given |-> FALSE, url |-> "", cfg_url |-> c] :
        c \in {"<raises>", "", "redis://up", "redis://down"} }

ApiInit ==
    /\ RunnerIdle
    /\ wrapper = "api"
    /\ config \in ApiConfigs
    /\ use_memory = FALSE
    /\ has_client = FALSE
    /\ net_calls = 0
    /\ store = EmptyMap
    /\ backend \in {EmptyMap, [EmptyMap EXCEPT !["run:a"] = "v1"]}
    /\ saved = NoRuns
    /\ plain_writes = FALSE
    /\ ops = 0
    /\ last = [op |-> "", raised |-> FALSE]
    /\ sky_enabled = FALSE
    /\ par_enabled = FALSE

\* VerifyPulseRedis() of a handler: whether the new instance has a client
\* (the URL is set and the ping was answered).
ApiConnects ==
    LET url == EffectiveUrl(config) IN
    ~UrlMissing(url) /\ url \in ReachableUrls

\* The pings the constructor of a handler attempts.
ApiPings == IF UrlMissing(EffectiveUrl(config)) THEN 0 ELSE 1

\* POST /run: execute_pipeline returned `result` with its collection_id;
\* the handler constructs VerifyPulseRedis() and calls save_run_result on it.
RunEndpoint ==
    /\ wrapper = "api"
    /\ ops < MaxOps
    /\ \E pipeline_result \in RunPayloads :
        LET key == RunKey(pipeline_result.collection_id)
            raw == JsonDumps(pipeline_result)
        IN  /\ \/ /\ ~ApiConnects
                  /\ use_memory' = TRUE
                  /\ has_client' = FALSE
                  /\ net_calls' = net_calls + ApiPings
                  /\ UNCHANGED backend
                  /\ last' = [op |-> "run", raised |-> FALSE,
                              ret |-> pipeline_result, via |-> "memory"]
               \/ /\ ApiConnects
                  /\ use_memory' = FALSE
                  /\ has_client' = TRUE
                  /\ net_calls' = net_calls + 2
                  /\ backend' = [backend EXCEPT ![key] = raw]
                  /\ last' = [op |-> "run", raised |-> FALSE,
                              ret |-> pipeline_result, via |-> "client"]
               \/ /\ ApiConnects
                  /\ use_memory' = TRUE
                  /\ has_client' = TRUE
                  /\ net_calls' = net_calls + 2
                  /\ UNCHANGED backend
                  /\ last' = [op |-> "run", raised |-> FALSE,
                              ret |-> pipeline_result, via |-> "fallback"]
            /\ saved' = [saved EXCEPT ![pipeline_result.collection_id] =
                                         <<pipeline_result>>]
    /\ ops' = ops + 1
    /\ UNCHANGED <<wrapper, config, sky_enabled, par_enabled, store,
                   plain_writes>>
    /\ WrapFrame

\* return {"count": len(runs), "runs": runs}
HistoryResponse(runs) == [count |-> Len(runs), runs |-> runs]

\* GET /history: the handler constructs VerifyPulseRedis() and calls
\* list_run_history on it.
HistoryEndpoint ==
    /\ wrapper = "api"
    /\ ops < MaxOps
    /\ \/ /\ ~ApiConnects
          /\ use_memory' = TRUE
          /\ has_client' = FALSE
          /\ net_calls' = net_calls + ApiPings
          /\ last' = [op |-> "history", raised |-> FALSE,
                      ret |-> HistoryResponse(HistoryEntries(
                                 KeyList(MemoryKeys(store, "run:*")), 1, 0)),
                      via |-> "memory"]
       \/ /\ ApiConnects
          /\ has_client' = TRUE
          /\ use_memory' = TRUE
          /\ net_calls' = net_calls + 2
          /\ last' = [op |-> "history", raised |-> FALSE,
                      ret |-> HistoryResponse(HistoryEntries(
                                 KeyList(MemoryKeys(store, "run:*")), 1, 0)),
                      via |-> "fallback"]
       \/ /\ ApiConnects
          /\ has_client' = TRUE
          /\ LET keylist == KeyList(ClientKeys(backend, "run:*")) IN
             \E failing \in 1..(Len(keylist) + 1) :
                /\ net_calls' = net_calls + 2
                       + (IF failing > Len(keylist) THEN Len(keylist)
                          ELSE failing)
                /\ use_memory' = (failing <= Len(keylist))
                /\ last' = [op |-> "history", raised |-> FALSE,
                            ret |-> HistoryResponse(
                                       HistoryEntries(keylist, 1, failing)),
                            via |-> IF failing <= Len(keylist)
                                    THEN "fallback" ELSE "client"]
    /\ ops' = ops + 1
    /\ UNCHANGED <<wrapper, config, sky_enabled, par_enabled, store, backend,
                   saved, plain_writes>>
    /\ WrapFrame

ApiNext == RunEndpoint \/ HistoryEndpoint

ApiSpec == ApiInit /\ [][ApiNext]_vars

(***************************************************************************)
(* Part 4.  quality_agent/agent_runner.py -- run_agent: the run loop, then *)
(* save_raw_failure_log (core/logger.py), then run_rag_diagnosis           *)
(* (core/rag_pipeline.py); and llm_generate of llm/client.py with its      *)
(* rule-based fallback generate_mock_diagnosis.                            *)
(*                                                                         *)
(* A Python dict is a TLA+ record; dict.get(key, default) is DictGet.  The *)
(* header maps of a RequestRecord are not modelled.                        *)
(***************************************************************************)

\* dict.get(key, default)
DictGet(dict, key, default) ==
    IF key \in DOMAIN dict THEN dict[key] ELSE default

\* ---- save_raw_failure_log ------------------------------------------------

\* record_to_dict(r)
RecordToDict(r) ==
    [method |-> r.method, url |-> r.url, request_body |-> r.request_body,
     status_code |-> r.status_code, response_body |-> r.response_body]

\* [record_to_dict(r) for r in test_result.request_history]
HistoryDicts(request_history) ==
    [n \in 1..Len(request_history) |-> RecordToDict(request_history[n])]

LogStatus_Failed(success) == "failed"

\* "passed" on the success branch, "failed" on the other
LogStatus(success) == IF success THEN "passed" ELSE "failed"

\* result["failing_call"]
FailingCall(failed_record) ==
    [request_data |-> [method |-> failed_record.method,
                       url |-> failed_record.url,
                       body |-> failed_record.request_body],
     response_data |-> [status_code |-> failed_record.status_code,
                        body |-> failed_record.response_body]]

\* path = f"runs/{run_id}_raw.json"
LogPath(run_id) == "runs/" \o run_id \o "_raw.json"

\* `result`: the dict built on the success or the failure branch
LogResult(test_result) ==
    IF test_result.success
    THEN [status |-> LogStatus(test_result.success),
          request_history |-> HistoryDicts(test_result.request_history)]
    ELSE IF test_result.failure = <<>>
    THEN [status |-> LogStatus(test_result.success),
          test_name |-> "unknown", failure_reason |-> "unknown",
          request_history |-> HistoryDicts(test_result.request_history)]
    ELSE [status |-> LogStatus(test_result.success),
          test_name |-> test_result.failure[1].test_name,
          failure_reason |-> test_result.failure[1].reason,
          request_history |-> HistoryDicts(test_result.request_history),
          failing_call |-> FailingCall(test_result.failure[1].failed_record)]

LogMetadata_Restamped(commit_hash, run_id, timestamp) ==
    [run_id |-> run_id,
     timestamp |-> IF \E f \in fs : f.path = LogPath(run_id)
                   THEN "<now>" ELSE timestamp,
     commit_hash |-> commit_hash]

\* The three metadata entries of `payload`
LogMetadata(commit_hash, run_id, timestamp) ==
    [run_id |-> run_id, timestamp |-> timestamp, commit_hash |-> commit_hash]

\* payload = {"run_id": ..., "timestamp": ..., "commit_hash": ..., **result}:
\* the entries of `result` come last and win.
FailureLogRecord(test_result, commit_hash, run_id, timestamp) ==
    LogResult(test_result) @@ LogMetadata(commit_hash, run_id, timestamp)

\* os.makedirs("runs", exist_ok=True); open(path, "w"); json.dump(payload):
\* the file of that path is created or replaced.
WriteFile(files, path, content) ==
    { f \in files : f.path # path } \cup {[path |-> path, content |-> content]}

\* uuid4, the clock and the --commit-hash of a run
RunMetas == { [commit_hash |-> "4a8e2d", run_id |-> "run-1", timestamp |-> "t1"] }

\* The agent's state is touched by nothing but the agent's own steps.
AgentFrame == UNCHANGED <<runner_vars, wrap_vars>>

\* save_raw_failure_log has just returned the log: the point at which
\* run_agent goes on, and at which the model makes one further call.
LogJustBuilt == raw_log # <<>> /\ agent_last.op = "save_raw_failure_log"

\* run_agent step 2: save_raw_failure_log(test_result, commit_hash, run_id,
\* timestamp) on the result run_native_tests returned.
\* os.makedirs and open(path, "w") are called outside any try: on a file
\* system that refuses the write the call raises and returns no log.
SaveRawFailureLog ==
    /\ pc = "returned"
    /\ raw_log = <<>>
    /\ agent_last.op = ""
    /\ LET payload == FailureLogRecord(result[1], meta.commit_hash,
                                       meta.run_id, meta.timestamp)
       IN  \/ /\ fs' = WriteFile(fs, LogPath(meta.run_id), payload)
              /\ raw_log' = <<payload>>
              /\ agent_last' = [op |-> "save_raw_failure_log",
                                raised |-> FALSE, ret |-> payload]
           \/ /\ agent_last' = [op |-> "save_raw_failure_log",
                                raised |-> TRUE]
              /\ UNCHANGED <<fs, raw_log>>
    /\ UNCHANGED meta
    /\ AgentFrame

\* save_raw_failure_log called once more with the same four arguments.
SaveRawFailureLogAgain ==
    /\ pc = "returned"
    /\ LogJustBuilt
    /\ LET payload == FailureLogRecord(result[1], meta.commit_hash,
                                       meta.run_id, meta.timestamp)
       IN  /\ fs' = WriteFile(fs, LogPath(meta.run_id), payload)
           /\ agent_last' = [op |-> "save_raw_failure_log_again",
                             ret |-> payload]
    /\ UNCHANGED <<meta, raw_log>>
    /\ AgentFrame

\* ---- llm/client.py: generate_mock_diagnosis -------------------------------

SuccessDiagnosis ==
    [FailureCategory |-> "Success",
     RootCauseSummary |-> "All tests passed successfully.",
     ReproductionSteps |-> <<>>,
     SuggestedFix |-> "No fixes needed."]

\* The fix texts of the four branches, by their first line.
StatusFix == "Review the endpoint implementation and ensure: ..."
JsonFix == "Ensure all API responses use JSONResponse: ..."
InfraFix == "Check: 1. The API service is running and accessible ..."
ReviewFix ==
    "Review the test implementation and API specification for discrepancies."

\* f"{body}" of a request body: the JSON text sent, or the repr of the
\* payload dict of a call that raised.
BodyText(body) ==
    IF body.kind = "json_text" THEN "{json: " \o body.of \o "}"
    ELSE "{dict: " \o body.of \o "}"

\* One reproduction step of generate_mock_diagnosis.
CurlStep(req) ==
    LET method == DictGet(req, "method", "GET")
        url == DictGet(req, "url", "")
        body == DictGet(req, "request_body", NoPayload)
    IN  IF method = "GET" THEN "curl -X " \o method \o " '" \o url \o "'"
        ELSE IF body.kind # "none"
        THEN "curl -X " \o method \o " '" \o url
                 \o "' -H 'Content-Type: application/json' -d '"
                 \o BodyText(body) \o "'"
        ELSE "curl -X " \o method \o " '" \o url \o "'"

MockSteps_LastOnly(request_history) ==
    IF Len(request_history) = 0
    THEN <<"Run the test suite against the API">>
    ELSE <<CurlStep(request_history[Len(request_history)])>>

\* steps if steps else ["Run the test suite against the API"]
MockSteps(request_history) ==
    IF Len(request_history) = 0
    THEN <<"Run the test suite against the API">>
    ELSE [n \in 1..Len(request_history) |-> CurlStep(request_history[n])]

\* The branch the if/elif chain of generate_mock_diagnosis takes.
MockCategory(failure_reason) ==
    LET lower == Lower(failure_reason) IN
    IF Contains(lower, "status_code") \/ Contains(failure_reason, "401")
         \/ Contains(failure_reason, "404")
    THEN "status"
    ELSE IF Contains(lower, "json") THEN "json"
    ELSE IF Contains(lower, "exception") \/ Contains(lower, "error")
    THEN "exception"
    ELSE "other"

\* generate_mock_diagnosis(log)
GenerateMockDiagnosis(log) ==
    LET status == DictGet(log, "status", "unknown")
        failure_reason == DictGet(log, "failure_reason", "Unknown failure")
        test_name == DictGet(log, "test_name", "unknown_test")
        branch == MockCategory(failure_reason)
        steps == MockSteps(DictGet(log, "request_history", <<>>))
    IN  IF status = "passed" THEN SuccessDiagnosis
        ELSE IF branch = "status"
        THEN [FailureCategory |-> "Product Bug",
              RootCauseSummary |->
                  "Test '" \o test_name
                  \o "' failed due to unexpected HTTP status code. "
                  \o failure_reason \o ". This indicates ...",
              ReproductionSteps |-> steps,
              SuggestedFix |-> StatusFix]
        ELSE IF branch = "json"
        THEN [FailureCategory |-> "Product Bug",
              RootCauseSummary |->
                  "Test '" \o test_name
                  \o "' expected a JSON response but received a different format. ...",
              ReproductionSteps |-> steps,
              SuggestedFix |-> JsonFix]
        ELSE IF branch = "exception"
        THEN [FailureCategory |-> "Environment Issue",
              RootCauseSummary |->
                  "Test '" \o test_name \o "' encountered an exception: "
                  \o failure_reason \o ". This may indicate ...",
              ReproductionSteps |-> steps,
              SuggestedFix |-> InfraFix]
        ELSE [FailureCategory |-> "Automation Flaw",
              RootCauseSummary |->
                  "Test '" \o test_name \o "' failed: " \o failure_reason,
              ReproductionSteps |-> steps,
              SuggestedFix |-> ReviewFix]

\* What call_openai_llm returns when the call succeeds: json.loads of the
\* model's answer, returned as it is.  The system prompt asks for the four
\* keys and one of four categories; nothing checks the answer against it.
LlmAnswers ==
    { [FailureCategory |-> "Configuration Error",
       RootCauseSummary |-> "<llm>",
       ReproductionSteps |-> <<"<llm>">>,
       SuggestedFix |-> "<llm>"],
      [FailureCategory |-> "Flaky Test",
       RootCauseSummary |-> "<llm>"] }

\* llm/client.py llm_generate(payload) on {"log": raw_log, "context": ...}:
\* OPENAI_API_KEY is read at the call; with a key, call_openai_llm answers
\* or raises; without an answer the rule-based diagnosis is returned.
ClientLlmGenerate ==
    /\ LogJustBuilt
    /\ \E key_set \in BOOLEAN :
       \/ /\ key_set
          /\ \E answer \in LlmAnswers :
                agent_last' = [op |-> "llm_generate", key_set |-> key_set,
                               llm_answered |-> TRUE, ret |-> answer]
       \/ agent_last' = [op |-> "llm_generate", key_set |-> key_set,
                         llm_answered |-> FALSE,
                         ret |-> GenerateMockDiagnosis(
                                    DictGet([log |-> raw_log[1]], "log",
                                            <<>>))]
    /\ UNCHANGED <<meta, raw_log, fs>>
    /\ AgentFrame

\* ---- core/rag_pipeline.py: run_rag_diagnosis ------------------------------

\* The name llm_generate that run_rag_diagnosis calls: the module imports
\* it from quality_agent.llm (line 22) and then defines its own function of
\* that name (line 239), which is the one bound when the call is made.
RagLlmGenerate(prompt) ==
    LET log == DictGet(prompt, "log", <<>>)
        failure_reason == DictGet(log, "failure_reason", "Unknown failure")
        test_name == DictGet(log, "test_name", "unknown_test")
    IN  [FailureCategory |-> "Product Bug",
         RootCauseSummary |->
             "Test '" \o test_name \o "' failed: " \o failure_reason
             \o ". This indicates the API implementation may not be following the expected contract.",
         ReproductionSteps |->
             <<"curl -X GET '<API_BASE_URL>/health'",
               "curl -X POST '<API_BASE_URL>/login' -H 'Content-Type: application/json' -d '{...}'">>,
         SuggestedFix |-> "Ensure all error branches return proper HTTP status codes ..."]

RagShortCircuit_Never(log) == FALSE

\* raw_log.get("status") == "passed"
RagShortCircuit(log) == DictGet(log, "status", "") = "passed"

\* ---- VectorDBClient, ingest_code_and_docs, retrieve_context --------------

\* os.getenv of a variable that is not set
Unset == "<unset>"

\* What VectorDBClient() finds: whether `import redis` and the redisvl
\* import both succeeded (one try block: either failing leaves redis = None
\* and REDISVL_AVAILABLE = False), and REDIS_URL.
VdbEnvs == [library : BOOLEAN, redis_url : {Unset, "", "redis://vdb"}]

\* redis.from_url(url) builds a lazy client and raises on a URL without a
\* redis scheme.
FromUrlOk(url) == StartsWith(url, "redis://")

VdbNew_IgnoresLibrary(vdb_env) ==
    LET enabled == vdb_env.redis_url # Unset /\ FromUrlOk(vdb_env.redis_url)
    IN  [enabled |-> enabled, has_client |-> enabled]

\* VectorDBClient.__init__(url=None): enabled and _client
VdbNew(vdb_env) ==
    LET configured == vdb_env.library /\ vdb_env.redis_url # Unset
        enabled == configured /\ FromUrlOk(vdb_env.redis_url)
    IN  [enabled |-> enabled, has_client |-> enabled]

\* How many code and doc files ingest_code_and_docs collects.
IngestedFiles == {0, 2}

\* ingest_code_and_docs(vdb, ...): upsert_embeddings sends one SET per
\* collected file, outside any try; the first SET to a server that is down
\* raises, and nothing between it and the caller catches it.
IngestCodeAndDocs(vdb, files, server_up) ==
    IF ~vdb.enabled \/ ~vdb.has_client THEN [raised |-> FALSE, io |-> 0]
    ELSE IF files = 0 THEN [raised |-> FALSE, io |-> 0]
    ELSE IF server_up THEN [raised |-> FALSE, io |-> files]
    ELSE [raised |-> TRUE, io |-> 1]

\* query_vector and search: stubs that return [] and contact no server
RetrievedContext == [code |-> <<>>, docs |-> <<>>]

\* retrieve_context(error_log, commit_hash, vdb): vdb is <<>> for None or
\* <<client>>.  Both the VectorQuery branch and the fallback branch end in
\* the stubs.
RetrieveContext(vdb, library) ==
    IF library /\ vdb # <<>> /\ vdb[1].enabled
    THEN [ret |-> RetrievedContext, io |-> 0, branch |-> "vector_query"]
    ELSE [ret |-> RetrievedContext, io |-> 0, branch |-> "search"]

\* retrieve_context called with no client, or with the client the
\* environment gives.
RetrieveContextCall ==
    /\ LogJustBuilt
    /\ \E vdb_env \in VdbEnvs, passed \in BOOLEAN :
          LET vdb == IF passed THEN <<VdbNew(vdb_env)>> ELSE <<>>
              got == RetrieveContext(vdb, vdb_env.library)
          IN  agent_last' = [op |-> "retrieve_context", vdb_env |-> vdb_env,
                             vdb |-> vdb, raised |-> FALSE, io |-> got.io,
                             branch |-> got.branch, ret |-> got.ret]
    /\ UNCHANGED <<meta, raw_log, fs>>
    /\ AgentFrame

\* run_rag_diagnosis(raw_log, commit_hash).  `env` is the environment read
\* at the call: whether OPENAI_API_KEY is set, and whether VectorDBClient()
\* comes out enabled in `vdb_env`.  `trace` lists the stages gone through,
\* `io` counts the commands sent to the vector DB's server.
RunRagDiagnosis ==
    /\ LogJustBuilt
    /\ \E openai_key \in BOOLEAN, vdb_env \in VdbEnvs :
       LET vdb == VdbNew(vdb_env)
           env == [openai_key |-> openai_key, vdb_enabled |-> vdb.enabled]
       IN
       IF RagShortCircuit(raw_log[1])
       THEN agent_last' = [op |-> "run_rag_diagnosis", env |-> env,
                           vdb_env |-> vdb_env, raised |-> FALSE,
                           trace |-> <<>>, io |-> 0, context |-> <<>>,
                           ret |-> <<SuccessDiagnosis>>]
       ELSE IF ~vdb.enabled
       THEN agent_last' =
                [op |-> "run_rag_diagnosis", env |-> env,
                 vdb_env |-> vdb_env, raised |-> FALSE,
                 trace |-> <<"vdb_client", "llm">>, io |-> 0,
                 context |-> <<RetrievedContext>>,
                 ret |-> <<RagLlmGenerate(
                             [log |-> raw_log[1],
                              context |-> RetrievedContext])>>]
       ELSE \E files \in IngestedFiles, server_up \in BOOLEAN :
            LET ingest == IngestCodeAndDocs(vdb, files, server_up)
                got == RetrieveContext(<<vdb>>, vdb_env.library)
            IN  IF ingest.raised
                THEN agent_last' =
                        [op |-> "run_rag_diagnosis", env |-> env,
                         vdb_env |-> vdb_env, raised |-> TRUE,
                         trace |-> <<"vdb_client", "ingest">>,
                         io |-> ingest.io, context |-> <<>>, ret |-> <<>>]
                ELSE agent_last' =
                        [op |-> "run_rag_diagnosis", env |-> env,
                         vdb_env |-> vdb_env, raised |-> FALSE,
                         trace |-> <<"vdb_client", "ingest", "retrieve",
                                     "llm">>,
                         io |-> ingest.io + got.io,
                         context |-> <<got.ret>>,
                         ret |-> <<RagLlmGenerate(
                                     [log |-> raw_log[1],
                                      context |-> got.ret])>>]
    /\ UNCHANGED <<meta, raw_log, fs>>
    /\ AgentFrame

\* ---- core/html_report.py and the end of run_agent -------------------------

\* reports_dir / f"{run_id}_diagnostic_report.html"
ReportPath(run_id) == "reports/" \o run_id \o "_diagnostic_report.html"

\* str(report_path.absolute())
AbsolutePath(path) == "/cwd/" \o path

\* The values the HTML template is filled with.
HtmlReport(run_id, diagnosis, log) ==
    [run_id |-> run_id,
     category |-> DictGet(diagnosis, "FailureCategory", "Unknown"),
     summary |-> DictGet(diagnosis, "RootCauseSummary",
                         "No summary available."),
     steps |-> DictGet(diagnosis, "ReproductionSteps", <<>>),
     suggested_fix |-> DictGet(diagnosis, "SuggestedFix",
                               "No fix suggested."),
     commit_hash |-> DictGet(log, "commit_hash", "unknown"),
     test_name |-> DictGet(log, "test_name", "unknown"),
     timestamp |-> DictGet(log, "timestamp", ""),
     success |-> DictGet(log, "success", FALSE)]

\* run_agent step 4: generate_html_report(run_id, diagnosis, raw_log) on
\* the diagnosis step 3 returned.  mkdir and write_text are called outside
\* any try.
GenerateHtmlReport ==
    /\ agent_last.op = "run_rag_diagnosis"
    /\ ~agent_last.raised
    /\ LET diagnosis == agent_last.ret[1]
           path == ReportPath(meta.run_id)
       IN  \/ /\ fs' = WriteFile(fs, path,
                                 HtmlReport(meta.run_id, diagnosis,
                                            raw_log[1]))
              /\ agent_last' = [op |-> "generate_html_report",
                                raised |-> FALSE, diagnosis |-> diagnosis,
                                ret |-> AbsolutePath(path)]
           \/ /\ agent_last' = [op |-> "generate_html_report",
                                raised |-> TRUE]
              /\ UNCHANGED fs
    /\ UNCHANGED <<meta, raw_log>>
    /\ AgentFrame

\* The dict run_agent returns.
AgentResult(run_id, report_path, diagnosis, test_result) ==
    [run_id |-> run_id, report_path |-> report_path,
     diagnosis |-> diagnosis, success |-> test_result.success]

\* main(): exit_code = 0 if result["success"] else 1
ExitCode(agent_result) == IF agent_result.success THEN 0 ELSE 1

\* run_agent returns, and main exits with the code of the result.
ReturnAgentResult ==
    /\ agent_last.op = "generate_html_report"
    /\ ~agent_last.raised
    /\ LET agent_result == AgentResult(meta.run_id, agent_last.ret,
                                       agent_last.diagnosis, result[1])
       IN  agent_last' = [op |-> "run_agent", raised |-> FALSE,
                          ret |-> agent_result,
                          exit_code |-> ExitCode(agent_result)]
    /\ UNCHANGED <<meta, raw_log, fs>>
    /\ AgentFrame

\* ---- the specification of the agent --------------------------------------

\* Ordered suites of at most MaxAgentCases cases.
AgentSuites == { suite \in Suites : Len(suite) <= MaxAgentCases }

AgentInit ==
    /\ api_base_url = "http://api"
    /\ test_cases \in AgentSuites
    /\ pc = "loop"
    /\ idx = 1
    /\ history = <<>>
    /\ result = <<>>
    /\ http_log = <<>>
    /\ rec_case = <<>>
    /\ started = 0
    /\ NoWrapper
    /\ meta \in RunMetas
    /\ raw_log = <<>>
    /\ fs = {}
    /\ agent_last = [op |-> ""]

AgentNext ==
    \/ RunnerNext
    \/ SaveRawFailureLog
    \/ SaveRawFailureLogAgain
    \/ RunRagDiagnosis
    \/ RetrieveContextCall
    \/ ClientLlmGenerate
    \/ GenerateHtmlReport
    \/ ReturnAgentResult

AgentSpec == AgentInit /\ [][AgentNext]_vars

(***************************************************************************)
(* Part 5.  verifypulse/agent_pipeline.py -- run_full_agent_pipeline.      *)
(*                                                                         *)
(* A behaviour of PipelineSpec is one SkyflowClient and one                *)
(* VerifyPulseRedis, handed to at most MaxOps calls of                     *)
(* run_full_agent_pipeline and list_run_history.  The collection run, the  *)
(* diagnosis and the report are the mocks of the module.  `saved` holds    *)
(* the failure log of the last run whose set has returned.                 *)
(***************************************************************************)

\* The clients handed to the pipeline: a SkyflowClient built from a vault
\* id and a token, a VerifyPulseRedis built from a URL.
PipelineConfigs ==
    [skyflow : { c \in SkyConfigs : c.enabled = "None" /\ c.env_vault_id = ""
                                        /\ c.env_token = "" },
     redis : { c \in RedisConfigs : c.url_given }]

\* The keys of the store a pipeline writes to.
PipelineKeys ==
    RedisKeys \cup { LogKey(PipelineCommit, ts) : ts \in PipelineTimes }

PipelineInit ==
    /\ RunnerIdle
    /\ wrapper = "pipeline"
    /\ config \in PipelineConfigs
    /\ sky_enabled = SkyEnabled(config.skyflow)
    /\ par_enabled = FALSE
    /\ LET url == EffectiveUrl(config.redis) IN
       IF UrlMissing(url)
       THEN /\ use_memory = TRUE
            /\ has_client = FALSE
            /\ net_calls = 0
       ELSE IF url \in ReachableUrls
       THEN /\ use_memory = FALSE
            /\ has_client = TRUE
            /\ net_calls = 1
       ELSE /\ use_memory = TRUE
            /\ has_client = FALSE
            /\ net_calls = 1
    /\ store = [k \in PipelineKeys |-> Absent]
    /\ backend \in { [k \in PipelineKeys |-> Absent],
                     [k \in PipelineKeys |->
                         IF k = "run:a"
                         THEN JsonDumps([collection_id |-> "a", tests |-> 2])
                         ELSE Absent] }
    /\ saved = <<>>
    /\ plain_writes = FALSE
    /\ ops = 0
    /\ last = [op |-> "", raised |-> FALSE]

\* LLMAnalyzer.diagnose: the fixed diagnosis of the mock
PipelineDiagnosis ==
    [FailureCategory |-> "Product Bug (Security/Data Exposure)",
     RootCauseSummary |-> "The grade retrieval endpoint is incorrectly utilizing an outdated serialization schema. ...",
     ReproductionSteps |->
         "curl -X GET 'https://api.prod/v1/grades?user=123' -H 'Authorization: Bearer token'",
     SuggestedFix |-> "File: models.py, Line 78. ..."]

\* generate_html_report(diagnosis, raw_log): the values the page shows
PipelineHtml(diagnosis, log) ==
    [category |-> DictGet(diagnosis, "FailureCategory", "Unknown"),
     summary |-> DictGet(diagnosis, "RootCauseSummary",
                         "No summary available"),
     commit_hash |-> DictGet(log, "commit_hash", "Unknown"),
     failure_details |-> log.test_result.failure_details]

\* The dict returned for a diagnosed failure.
PipelineResult(diagnosis, log) ==
    [status |-> "FAILURE_DIAGNOSED",
     diagnostic_summary |-> DictGet(diagnosis, "RootCauseSummary", ""),
     html_report_content |-> PipelineHtml(diagnosis, log),
     diagnosis |-> diagnosis,
     raw_log |-> log]

\* run_full_agent_pipeline(requirement, api_url, collection_id, commit_hash,
\* skyflow_client=..., redis_client=...): the collection is run; a passed
\* run returns at once; for a failed one the PII fields of the response are
\* tokenized, the log is built, diagnosed and rendered, and the log is saved
\* with redis_client.set, in memory, or on the server, or on the server
\* failing and then in memory.
RunFullAgentPipeline ==
    /\ wrapper = "pipeline"
    /\ ops < MaxOps
    /\ \E collection_id \in PipelineCollections, now \in PipelineTimes :
       LET test_result == RunCollection(collection_id) IN
       IF DictGet(test_result, "status", "") = "PASSED"
       THEN /\ last' = [op |-> "run_full_agent_pipeline", raised |-> FALSE,
                        ret |-> [status |-> "PASSED",
                                 summary |-> "All tests passed. No failure log generated for diagnosis.",
                                 html_report_content |-> ""]]
            /\ UNCHANGED <<store, backend, use_memory, net_calls, saved>>
       ELSE
       \E tokenize_result \in
              TokenizeResults(sky_enabled,
                  PiiFields(ResponseLoads(
                      test_result.failure_details.full_response))) :
       LET failure_response == test_result.failure_details.full_response
           log == PipelineLog(now, PipelineCommit, test_result,
                              PipelineRequirement,
                              TokenizedResponse(failure_response,
                                                tokenize_result))
           log_key == LogKey(PipelineCommit, now)
           value == LogJsonOf[log]
           sky_calls == IF sky_enabled THEN 1 ELSE 0
           outcome(via) ==
               [op |-> "run_full_agent_pipeline", raised |-> FALSE,
                tokenize_result |-> tokenize_result, key |-> log_key,
                value |-> value, via |-> via,
                ret |-> PipelineResult(PipelineDiagnosis, log)]
       IN  /\ saved' = <<log>>
           /\ \/ /\ use_memory
                 /\ store' = [store EXCEPT ![log_key] = value]
                 /\ net_calls' = net_calls + sky_calls
                 /\ UNCHANGED <<backend, use_memory>>
                 /\ last' = outcome("memory")
              \/ /\ UsesClient
                 /\ backend' = [backend EXCEPT ![log_key] = value]
                 /\ net_calls' = net_calls + sky_calls + 1
                 /\ UNCHANGED <<store, use_memory>>
                 /\ last' = outcome("client")
              \/ /\ UsesClient
                 /\ net_calls' = net_calls + sky_calls + 1
                 /\ use_memory' = TRUE
                 /\ store' = [store EXCEPT ![log_key] = value]
                 /\ UNCHANGED backend
                 /\ last' = outcome("fallback")
    /\ ops' = ops + 1
    /\ UNCHANGED <<wrapper, config, sky_enabled, par_enabled, has_client,
                   plain_writes>>
    /\ WrapFrame

PipelineNext == RunFullAgentPipeline \/ ListRunHistory

PipelineSpec == PipelineInit /\ [][PipelineNext]_vars

(***************************************************************************)
(* Properties of run_native_tests.                                         *)
(***************************************************************************)

Returned == pc = "returned" /\ result # <<>>
RunResult == result[1]
HasFailed == result # <<>> /\ ~result[1].success
Failure == result[1].failure[1]

\* Index of the case the returned failure names (names are unique in a suite).
FailIndex ==
    CHOOSE k \in 1..Len(test_cases) : test_cases[k].name = Failure.test_name

CallsFor(k) == { n \in 1..Len(http_log) : http_log[n].case = k }
RecordsFor(k) == { n \in 1..Len(history) : rec_case[n] = k }

\* The response the service served satisfies the case's expectations.
ServedPasses(test, served) ==
    /\ served.kind = "response"
    /\ test.expected_status.iterable
    /\ served.status \in { test.expected_status.codes[j] :
                             j \in 1..Len(test.expected_status.codes) }
    /\ test.requires_json => served.raw \in {"json_map", "json_array"}

\* C1: when the run has failed at the case of index i, the history holds
\* records of the cases up to i only (every earlier case exactly once, each
\* having passed), the returned history is that history, and no HTTP call
\* was issued for a case after i.
C1_StopAtFirstFailure ==
    HasFailed =>
        LET i == FailIndex IN
        /\ { rec_case[n] : n \in 1..Len(rec_case) } = 1..i
        /\ \A k \in 1..(i - 1) :
             /\ Cardinality(RecordsFor(k)) = 1
             /\ \A n \in CallsFor(k) : ServedPasses(test_cases[k], http_log[n].served)
        /\ RunResult.request_history = history
        /\ \A n \in 1..Len(http_log) : http_log[n].case <= i
        /\ \A k \in 1..i : Cardinality(CallsFor(k)) <= 1
        /\ pc = "returned"

\* A run that failed at its second case or later, with a later case left.
C1_Witness ==
    /\ HasFailed
    /\ FailIndex >= 2
    /\ FailIndex < Len(test_cases)
    /\ Len(http_log) = FailIndex

\* C2: when every case of the suite was served a response whose status is in
\* its expected set and whose body is a map or array where JSON is required,
\* the run returns success=true, failure=None and one record per case in
\* declaration order.
C2_AllPassSucceeds ==
    ( /\ pc = "returned"
      /\ \A k \in 1..Len(test_cases) :
           /\ CallsFor(k) # {}
           /\ \A n \in CallsFor(k) :
                ServedPasses(test_cases[k], http_log[n].served) )
    =>
    ( /\ RunResult.success
      /\ RunResult.failure = <<>>
      /\ Len(RunResult.request_history) = Len(test_cases)
      /\ \A k \in 1..Len(test_cases) :
           /\ rec_case[k] = k
           /\ RunResult.request_history[k].url
                = UrlOf(api_base_url, test_cases[k])
           /\ RunResult.request_history[k].status_code
                = http_log[k].served.status )

\* A successful run of a full-length suite holding the login case answered 401.
C2_Witness ==
    /\ Returned
    /\ RunResult.success
    /\ Len(test_cases) = MaxCases
    /\ \E k \in 1..Len(history) :
         /\ test_cases[k].name = "login_requirements"
         /\ history[k].status_code = 401

\* C3: in every returned TestRunResult, failure is present iff success is
\* false, and for a failed run failure.failed_record is the last element of
\* request_history.
C3_FailureIffNotSuccess ==
    Returned =>
        /\ (RunResult.failure # <<>>) <=> ~RunResult.success
        /\ ~RunResult.success =>
             /\ Len(RunResult.request_history) >= 1
             /\ Failure.failed_record
                  = RunResult.request_history[Len(RunResult.request_history)]
             /\ RunResult.request_history = history

\* A failed run whose last iteration appended more than one record.
C3_Witness ==
    /\ HasFailed
    /\ Cardinality(RecordsFor(FailIndex)) = 2

\* C4: the history length always equals the number of test cases whose
\* execution was started.
C4_OneRecordPerCase == Len(history) = started

\* C5: when the HTTP call of a case raised a transport error, exactly one
\* call was attempted for the case, the run has returned success=false, the
\* last record has status_code 0 and the error description as response_body,
\* and the failure carries the case's name, a reason and that record.
C5_TransportErrorHalts ==
    \A n \in 1..Len(http_log) :
        http_log[n].served.kind = "error" =>
            LET k == http_log[n].case
                rec == history[Len(history)]
            IN  /\ Cardinality(CallsFor(k)) = 1
                /\ n = Len(http_log)
                /\ Returned
                /\ ~RunResult.success
                /\ rec.status_code = 0
                /\ rec.response_body.type = "str"
                /\ rec.response_body.text = http_log[n].served.msg
                /\ Cardinality(RecordsFor(k)) = 1
                /\ Failure.test_name = test_cases[k].name
                /\ Failure.reason = "Exception calling "
                       \o test_cases[k].endpoint \o ": "
                       \o http_log[n].served.cls \o "('"
                       \o http_log[n].served.msg \o "')"
                /\ Failure.failed_record = rec

\* A run halted by a timeout on its second case.
C5_Witness ==
    /\ Returned
    /\ Len(http_log) = 2
    /\ http_log[2].served.kind = "error"
    /\ http_log[2].served.cls = "ReadTimeout"

\* The texts the reasons are expected to show for the codes of the suites.
C6_CodesText(codes) ==
    CASE codes = <<200>> -> "200"
      [] codes = <<200, 401>> -> "200 or 401"
      [] codes = <<200, 204>> -> "200 or 204"
      [] OTHER -> "?"

C6_StatusText(status) ==
    CASE status = 200 -> "200"
      [] status = 204 -> "204"
      [] status = 401 -> "401"
      [] status = 500 -> "500"
      [] OTHER -> "?"

\* C6: the status check comes before the JSON check.  For a run that failed
\* on a served response: a status outside the expected set gives the
\* reason "Expected {codes joined by ' or '} from {endpoint}, got {actual}"
\* whatever the body is; a status inside the set gives the reason
\* "Expected JSON response from {endpoint}", and then requires_json is true
\* and the body is neither a map nor an array.
C6_StatusBeforeJson ==
    ( /\ HasFailed
      /\ http_log # <<>>
      /\ http_log[Len(http_log)].case = FailIndex
      /\ http_log[Len(http_log)].served.kind = "response"
      /\ test_cases[FailIndex].expected_status.iterable )
    =>
    LET t == test_cases[FailIndex]
        sv == http_log[Len(http_log)].served
        codes == t.expected_status.codes
        inSet == sv.status \in { codes[j] : j \in 1..Len(codes) }
        bodyOk == sv.raw \in {"json_map", "json_array"}
    IN  /\ ~inSet =>
              Failure.reason = "Expected " \o C6_CodesText(codes) \o " from "
                  \o t.endpoint \o ", got " \o C6_StatusText(sv.status)
        /\ inSet =>
              /\ t.requires_json
              /\ ~bodyOk
              /\ Failure.reason = "Expected JSON response from " \o t.endpoint

\* The login case answered 500 with a body that is no JSON: both checks
\* would fail, and the reason is the one of the status check.
C6_Witness ==
    /\ HasFailed
    /\ http_log # <<>>
    /\ http_log[Len(http_log)].served.kind = "response"
    /\ http_log[Len(http_log)].served.status = 500
    /\ http_log[Len(http_log)].served.raw = "text"
    /\ Failure.reason = "Expected 200 or 401 from /login, got 500"

\* The spellings of the four methods, and the verb each stands for.
C7_Spellings ==
    [verb \in {"GET", "POST", "PUT", "DELETE"} |->
        CASE verb = "GET" -> {"GET", "get", "Get"}
          [] verb = "POST" -> {"POST", "post", "Post"}
          [] verb = "PUT" -> {"PUT", "put", "Put"}
          [] verb = "DELETE" -> {"DELETE", "delete", "Delete"}]

C7_Unsupported(method) ==
    \A verb \in DOMAIN C7_Spellings : method \notin C7_Spellings[verb]

\* C7: a case whose method is none of GET, POST, PUT, DELETE in any letter
\* case is never passed over: no HTTP call is issued for it, and once its
\* iteration ran the run has returned success=false at that case after one
\* record, with a reason reporting the unsupported method, and with no call
\* for a later case.  A method spelled in another case is dispatched.
C7_UnsupportedMethodStops ==
    /\ \A k \in 1..Len(test_cases) :
         C7_Unsupported(test_cases[k].method) =>
            /\ CallsFor(k) = {}
            /\ idx <= k
            /\ started >= k =>
                 /\ Returned
                 /\ ~RunResult.success
                 /\ FailIndex = k
                 /\ Failure.reason = "Exception calling "
                        \o test_cases[k].endpoint
                        \o ": ValueError('Unsupported HTTP method: "
                        \o test_cases[k].method \o "')"
                 /\ Cardinality(RecordsFor(k)) = 1
                 /\ started = k
                 /\ \A n \in 1..Len(http_log) : http_log[n].case < k
    /\ \A n \in 1..Len(http_log) :
         test_cases[http_log[n].case].method \in C7_Spellings[http_log[n].verb]

\* The PATCH case failed as second case after the lower-case put case
\* passed, with a third case left unexecuted.
C7_Witness ==
    /\ HasFailed
    /\ Len(test_cases) = 3
    /\ FailIndex = 2
    /\ test_cases[1].method = "put"
    /\ test_cases[2].method = "PATCH"
    /\ Len(http_log) = 1

(***************************************************************************)
(* Properties of the fail-soft wrappers.                                   *)
(***************************************************************************)

SkyUnconfigured ==
    /\ wrapper = "skyflow"
    /\ \/ config.vault_id = "" /\ config.env_vault_id = ""
       \/ config.api_token = "" /\ config.env_token = ""

ParUnconfigured ==
    /\ wrapper = "parallel"
    /\ config.api_key = ""
    /\ config.env_key = ""

RedisUnconfigured ==
    /\ wrapper = "redis"
    /\ \/ config.url_given /\ config.url \in {"", "  "}
       \/ ~config.url_given /\ config.cfg_url \in {"<raises>", ""}

SearchOps ==
    {"search_web", "search_security_guidelines", "search_login_checklist"}

\* C8: a wrapper constructed without its configuration attempts no network
\* call in any operation, and every operation returns the documented
\* default: tokenize_record gives enabled=False with the record it was
\* given, search_web gives enabled=False with a reason, and the key-value
\* store reads and writes its in-memory map and leaves the server alone.
C8_DisabledNeverCallsNetwork ==
    /\ SkyUnconfigured =>
         /\ net_calls = 0
         /\ last.op = "tokenize_record" =>
              /\ ~last.raised
              /\ ~last.ret.enabled
              /\ last.ret.original = last.arg
              /\ last.ret.tokenized = last.arg
    /\ ParUnconfigured =>
         /\ net_calls = 0
         /\ last.op \in SearchOps =>
              /\ ~last.raised
              /\ ~last.ret.enabled
              /\ last.ret.reason = "Parallel API key missing"
              /\ last.ret.query = last.arg
    /\ RedisUnconfigured =>
         /\ net_calls = 0
         /\ use_memory
         /\ backend \in {EmptyMap, [EmptyMap EXCEPT !["run:a"] = "v1"]}
         /\ last.op # "" => ~last.raised /\ last.via = "memory"
         /\ last.op \in {"set", "store_requirement"} =>
              store[last.key] = last.value
         /\ last.op \in {"get", "get_requirement"} =>
              /\ last.ret.found <=> store[last.key] # Absent
              /\ last.ret.found => last.ret.value = store[last.key]
         /\ last.op = "keys" /\ last.pattern = "*" =>
              last.ret = { k \in RedisKeys : store[k] # Absent }

\* An unconfigured instance of each class after MaxOps operations, the
\* SkyflowClient having been constructed with enabled=True.
C8_Witness ==
    /\ ops = MaxOps
    /\ \/ /\ SkyUnconfigured
          /\ config.enabled = "True"
          /\ config.vault_id # ""
          /\ last.op = "tokenize_record"
       \/ /\ ParUnconfigured
          /\ last.op = "search_web"
       \/ /\ RedisUnconfigured
          /\ last.op = "get"
          /\ last.ret.found

\* The backend failed: a network error, a status outside 2xx, or a 2xx
\* response whose body is no JSON or no JSON the wrapper can read.
C9_BackendError ==
    /\ last.op # ""
    /\ last.reply.kind # "none"
    /\ \/ last.reply.kind = "error"
       \/ last.reply.status \div 100 # 2
       \/ wrapper = "parallel" /\ ~last.reply.json
       \/ wrapper = "skyflow" /\ ~last.reply.body.json
       \/ wrapper = "skyflow" /\ last.reply.body.top = "list"
       \/ wrapper = "skyflow" /\ last.reply.body.records = "empty"

\* C9: tokenize_record and search_web never raise to the caller, and
\* return enabled=False on every backend error.
C9_NoExceptionEscapes ==
    wrapper \in {"skyflow", "parallel"} =>
        /\ ~last.raised
        /\ C9_BackendError => ~last.ret.enabled

\* C10: a tokenize_record result whose 'tokenized' value is the record it
\* was given has enabled=False, and its 'original' is always that record.
C10_OriginalMeansDisabled ==
    wrapper = "skyflow" /\ last.op = "tokenize_record" =>
        /\ last.ret.original = last.arg
        /\ last.ret.tokenized = last.arg => ~last.ret.enabled

(***************************************************************************)
(* Properties of the run history of VerifyPulseRedis.                      *)
(***************************************************************************)

\* The instance was constructed without a URL.
RedisDisabled == wrapper = "redis" /\ UrlMissing(EffectiveUrl(config))

\* The operations of VerifyPulseRedis, by the shape of their outcome.
RedisWriteOps == {"set", "store_requirement", "save_run_result"}
RedisReadOps == {"get", "get_requirement"}
RedisOps == RedisWriteOps \cup RedisReadOps \cup {"keys", "list_run_history"}

\* C11: on an instance constructed without a URL on which no write other
\* than save_run_result was made, list_run_history returns one entry per run
\* id saved so far, equal to the payload last saved under that id; it is the
\* empty list when nothing was saved.
C11_HistoryOfDisabledStore ==
    RedisDisabled /\ ~plain_writes /\ last.op = "list_run_history" =>
        /\ last.ret = saved["a"] \o saved["b"]
        /\ ~last.raised
        /\ net_calls = 0

\* Three saves, the run id "a" saved twice with different payloads, and
\* then the listing.
C11_Witness ==
    /\ RedisDisabled
    /\ ~plain_writes
    /\ ops = 4
    /\ last.op = "list_run_history"
    /\ Len(last.ret) = 2
    /\ last.ret[1] # last.ret[2]

\* C12, the state after an operation: no operation raised, and an operation
\* whose call on the server failed left use_memory true and was completed
\* against the in-memory map.
C12_FallbackCompletes ==
    wrapper = "redis" /\ last.op \in RedisOps =>
        /\ ~last.raised
        /\ last.via = "fallback" =>
              /\ use_memory
              /\ last.op \in RedisWriteOps => store[last.key] = last.value
              /\ last.op \in RedisReadOps =>
                    last.ret = MemoryGet(store, last.key)
              /\ last.op = "keys" =>
                    last.ret = MemoryKeys(store, last.pattern)
              /\ last.op = "list_run_history" =>
                    \A n \in 1..Len(last.ret) :
                        \E k \in RedisKeys :
                            \/ JsonDumps(last.ret[n]) = store[k]
                            \/ JsonDumps(last.ret[n]) = backend[k]

\* C12, the steps after the switch: once use_memory is true it stays true,
\* and every later operation is served by the in-memory map: no call on the
\* server, the server's content untouched.
C12_MemoryServesLater ==
    wrapper = "redis" /\ use_memory =>
        /\ use_memory'
        /\ net_calls' = net_calls
        /\ backend' = backend
        /\ last'.via = "memory"

\* C12: a failing Redis backend makes the operation fall back to the
\* in-memory store without raising, and the instance stays on it.
C12_FailSoftFallback ==
    /\ []C12_FallbackCompletes
    /\ [][C12_MemoryServesLater]_vars

\* A set on a connected instance failed and went to memory, and a later get
\* of that key was served from memory.
C12_Witness ==
    /\ wrapper = "redis"
    /\ has_client
    /\ use_memory
    /\ net_calls = 2
    /\ ops >= 2
    /\ last.op = "get"
    /\ last.via = "memory"
    /\ last.ret.found
    /\ backend[last.key] = Absent

(***************************************************************************)
(* Properties of the API server.                                           *)
(***************************************************************************)

\* C13: the answer of GET /history has a count equal to the length of its
\* list, and the list holds, for every collection id a POST /run saved a
\* result under earlier in the process, the result last saved under it.
C13_HistoryKeepsRuns ==
    wrapper = "api" /\ last.op = "history" =>
        /\ last.ret.count = Len(last.ret.runs)
        /\ \A id \in RunIds :
              saved[id] # <<>> =>
                 \E n \in 1..Len(last.ret.runs) :
                     last.ret.runs[n] = saved[id][1]

(***************************************************************************)
(* Properties of the failure log and of the diagnosis.                     *)
(***************************************************************************)

\* The log save_raw_failure_log returned, and the result it was built from.
Log == raw_log[1]
Logged == raw_log # <<>>

\* C14: the log carries run_id, timestamp and commit_hash as passed, status
\* "passed" exactly when the run succeeded and "failed" otherwise, and the
\* records of the run's history in their order; the log of a failed run
\* also carries the failure's test name and reason, and a failing_call
\* with the request and response fields of the failure's record.
C14_LogMirrorsRun ==
    Logged =>
        /\ Log.run_id = meta.run_id
        /\ Log.timestamp = meta.timestamp
        /\ Log.commit_hash = meta.commit_hash
        /\ Log.status = (IF RunResult.success THEN "passed" ELSE "failed")
        /\ Len(Log.request_history) = Len(RunResult.request_history)
        /\ \A n \in 1..Len(Log.request_history) :
              LET entry == Log.request_history[n]
                  rec == RunResult.request_history[n]
              IN  /\ entry.method = rec.method
                  /\ entry.url = rec.url
                  /\ entry.request_body = rec.request_body
                  /\ entry.status_code = rec.status_code
                  /\ entry.response_body = rec.response_body
        /\ RunResult.success =>
              DOMAIN Log = {"run_id", "timestamp", "commit_hash", "status",
                            "request_history"}
        /\ ~RunResult.success =>
              /\ Log.test_name = Failure.test_name
              /\ Log.failure_reason = Failure.reason
              /\ Log.failing_call.request_data.method
                    = Failure.failed_record.method
              /\ Log.failing_call.request_data.url
                    = Failure.failed_record.url
              /\ Log.failing_call.request_data.body
                    = Failure.failed_record.request_body
              /\ Log.failing_call.response_data.status_code
                    = Failure.failed_record.status_code
              /\ Log.failing_call.response_data.body
                    = Failure.failed_record.response_body

\* The log of a run that failed at its second case on a status mismatch.
C14_Witness ==
    /\ Logged
    /\ Log.status = "failed"
    /\ Len(Log.request_history) = 2
    /\ Log.failing_call.response_data.status_code = 500
    /\ Log.request_history[1].status_code = 200

\* C15: building the log leaves the file system as it was before the run.
C15_BuilderWritesNoFile == Logged => fs = {}

\* C16, the value: the second call with the same arguments returns a record
\* equal to the one the first call returned.
C16_SameRecord ==
    agent_last.op = "save_raw_failure_log_again" => agent_last.ret = Log

\* C16, the step: the second call alters neither the record the first call
\* returned nor the run result.
C16_SecondCallAltersNothing ==
    agent_last'.op = "save_raw_failure_log_again" =>
        /\ raw_log' = raw_log
        /\ result' = result

DiagnosedFailure ==
    /\ agent_last.op = "run_rag_diagnosis"
    /\ ~agent_last.raised
    /\ Log.status = "failed"

\* C17: without an OpenAI key, the diagnosis run_rag_diagnosis returns for
\* a failed log is the one generate_mock_diagnosis computes from the log.
C17_PipelineFallsBackToRules ==
    DiagnosedFailure /\ ~agent_last.env.openai_key =>
        agent_last.ret[1] = GenerateMockDiagnosis(Log)

\* The run failed on a status mismatch: the reason is the one the status
\* check of the loop builds.
C18_StatusMismatch ==
    /\ HasFailed
    /\ http_log # <<>>
    /\ http_log[Len(http_log)].served.kind = "response"
    /\ Failure.reason = StatusReason(test_cases[FailIndex],
                                     http_log[Len(http_log)].served.status)

\* C18: for a run that failed on a status mismatch, the rule-based
\* diagnosis is a "Product Bug" with the fix about HTTP status handling.
C18_StatusMismatchIsProductBug ==
    /\ Logged
    /\ C18_StatusMismatch
    /\ agent_last.op = "llm_generate"
    /\ ~agent_last.llm_answered
    => /\ agent_last.ret.FailureCategory = "Product Bug"
       /\ agent_last.ret.SuggestedFix = StatusFix

\* The run failed on an exception of the transport.
C19_TransportFailure ==
    /\ HasFailed
    /\ http_log # <<>>
    /\ http_log[Len(http_log)].served.kind = "error"

\* C19: for a run that failed on a transport exception, the diagnosis
\* produced without an OpenAI key is an "Environment Issue" with the
\* infrastructure checklist.
C19_TransportIsEnvironmentIssue ==
    DiagnosedFailure /\ C19_TransportFailure /\ ~agent_last.env.openai_key =>
        /\ agent_last.ret[1].FailureCategory = "Environment Issue"
        /\ agent_last.ret[1].SuggestedFix = InfraFix

\* C20: for a log with status "passed", run_rag_diagnosis returns the fixed
\* "Success" diagnosis with no reproduction steps and goes through none of
\* its stages: no vector-DB client, no ingestion, no retrieval, no LLM call.
C20_PassedShortCircuits ==
    agent_last.op = "run_rag_diagnosis" /\ Log.status = "passed" =>
        /\ ~agent_last.raised
        /\ agent_last.ret = <<SuccessDiagnosis>>
        /\ agent_last.ret[1].FailureCategory = "Success"
        /\ agent_last.ret[1].ReproductionSteps = <<>>
        /\ agent_last.trace = <<>>

\* The diagnosis of a passed two-case run, in an environment where the
\* vector DB is configured.
C20_Witness ==
    /\ agent_last.op = "run_rag_diagnosis"
    /\ Log.status = "passed"
    /\ Len(Log.request_history) = 2
    /\ agent_last.env.vdb_enabled

\* ---- C21 -------------------------------------------------------------------

\* The rule-based diagnosis has just been returned for a failed run.
FallbackOfFailure ==
    /\ agent_last.op = "llm_generate"
    /\ ~agent_last.llm_answered
    /\ Logged
    /\ Log.status = "failed"

\* The command expected for one record of the log's request_history.
C21_Command(rec) ==
    LET flagged == rec.method # "GET" /\ rec.request_body.kind # "none"
    IN  "curl -X " \o rec.method \o " '" \o rec.url \o "'"
        \o (IF flagged
            THEN " -H 'Content-Type: application/json' -d '"
                     \o BodyText(rec.request_body) \o "'"
            ELSE "")

C22_Categories ==
    {"Product Bug", "Environment Issue", "Automation Flaw",
     "Configuration Error", "Success"}

\* The diagnosis the last call of the diagnosis stage returned, if any.
C22_Returned ==
    IF agent_last.op = "llm_generate" THEN <<agent_last.ret>>
    ELSE IF agent_last.op = "run_rag_diagnosis" THEN agent_last.ret
    ELSE <<>>

\* C22: every diagnosis the diagnosis stage returns, on the passed path, the
\* delegated LLM path and the fallback path, has the four fields
\* FailureCategory, RootCauseSummary, ReproductionSteps and SuggestedFix,
\* and its FailureCategory is one of the five categories.
C22_DiagnosisWellFormed ==
    \A n \in 1..Len(C22_Returned) :
        LET d == C22_Returned[n]
        IN  /\ DOMAIN d = {"FailureCategory", "RootCauseSummary",
                           "ReproductionSteps", "SuggestedFix"}
            /\ d.FailureCategory \in C22_Categories

\* ---- C23 -------------------------------------------------------------------

\* The vector-search wrapper is disabled by its environment: the client
\* library is missing or no URL is configured.
C23_Disabled(vdb_env) == ~vdb_env.library \/ vdb_env.redis_url = Unset

\* C23: with the vector-search wrapper disabled (no URL, client library
\* missing, or no client passed) context retrieval returns code=[] and
\* docs=[] without raising and without backend I/O, and the diagnosis stage
\* still returns a diagnosis for a failed log.
C23_DisabledRetrievalIsEmpty ==
    /\ agent_last.op = "retrieve_context"
         /\ (agent_last.vdb = <<>> \/ C23_Disabled(agent_last.vdb_env)) =>
            /\ ~agent_last.raised
            /\ agent_last.ret = [code |-> <<>>, docs |-> <<>>]
            /\ agent_last.io = 0
    /\ agent_last.op = "run_rag_diagnosis" /\ Log.status = "failed"
         /\ C23_Disabled(agent_last.vdb_env) =>
            /\ ~agent_last.raised
            /\ agent_last.io = 0
            /\ agent_last.context = <<[code |-> <<>>, docs |-> <<>>]>>
            /\ Len(agent_last.ret) = 1
            /\ agent_last.ret[1].FailureCategory # "Success"

\* A failed log diagnosed where a URL is configured and the client library
\* is missing.
C23_Witness ==
    /\ agent_last.op = "run_rag_diagnosis"
    /\ Log.status = "failed"
    /\ ~agent_last.vdb_env.library
    /\ agent_last.vdb_env.redis_url = "redis://vdb"
    /\ Len(agent_last.ret) = 1

\* ---- C24 -------------------------------------------------------------------

\* C24: ingestion is fail-soft: with the vector DB configured and a write
\* failing during ingest_code_and_docs, run_rag_diagnosis absorbs the
\* failure, goes on to retrieval and returns a diagnosis.
C24_IngestFailSoft ==
    agent_last.op = "run_rag_diagnosis" /\ agent_last.env.vdb_enabled
        /\ Log.status = "failed" =>
            /\ ~agent_last.raised
            /\ Len(agent_last.ret) = 1

\* ---- C25 -------------------------------------------------------------------

\* The steps of run_agent after the test run.
AgentStages ==
    {"save_raw_failure_log", "run_rag_diagnosis", "generate_html_report",
     "run_agent"}

\* C25: the orchestrator never fails: whatever the target service, the file
\* system, the vector store and the LLM do, run_agent goes through Execute,
\* Log, Retrieve/Diagnose and Report once each in that order, and no stage
\* raises an exception on the way to Done.
C25_NoStageRaises ==
    agent_last.op \in AgentStages => ~agent_last.raised

\* ---- C26 -------------------------------------------------------------------

\* run_agent has returned its result.
Done == agent_last.op = "run_agent"

\* C26: the result run_agent returns at Done holds the run identifier, a
\* success flag equal to TestRunResult.success, the FailureLogRecord built
\* for the run and the DiagnosisRecord; and the exit code is 0 exactly when
\* the success flag is true.
C26_AggregateComplete ==
    Done =>
        LET agent_result == agent_last.ret
        IN  /\ agent_result.run_id = meta.run_id
            /\ agent_result.success = RunResult.success
            /\ agent_result.diagnosis \in {SuccessDiagnosis,
                  RagLlmGenerate([log |-> Log, context |-> RetrievedContext])}
            /\ (agent_last.exit_code = 0) <=> agent_result.success
            /\ \E field \in DOMAIN agent_result
                                \ {"run_id", "report_path", "success"} :
                   agent_result[field] = Log

\* ---- C27 -------------------------------------------------------------------

\* The pipeline has just returned a diagnosed failure whose PII fields the
\* Skyflow client tokenized: the client is enabled and the result carries
\* tokens in place of the values.
C27_Tokenized ==
    /\ last.op = "run_full_agent_pipeline"
    /\ last.ret.status = "FAILURE_DIAGNOSED"
    /\ sky_enabled
    /\ last.tokenize_result.enabled
    /\ \A k \in DOMAIN last.tokenize_result.original :
          last.tokenize_result.tokenized[k]
              # last.tokenize_result.original[k]

\* C27: when the failing response holds PII fields and Skyflow tokenization
\* is enabled and succeeds, the raw failure log saved to the key-value
\* store and returned to the caller holds no original value of those
\* fields anywhere in it.
C27_LogHoldsNoPii ==
    C27_Tokenized =>
        \A k \in DOMAIN last.tokenize_result.original :
            LET secret == last.tokenize_result.original[k]
                log == last.ret.raw_log
            IN  /\ ~Contains(log.tokenized_response, secret)
                /\ ~Contains(log.test_result.failure_details.full_response,
                             secret)
                /\ ~Contains(last.value, secret)

\* ---- C29 -------------------------------------------------------------------

\* C29: a failure log that run_full_agent_pipeline saved to the key-value
\* store for a diagnosed failure is returned by a later list_run_history on
\* the same store.  Stated for a store that works in memory from the start,
\* where nothing is lost between the set and the listing.
C29_HistoryListsFailureLog ==
    last.op = "list_run_history" /\ ~has_client /\ saved # <<>> =>
        \E n \in 1..Len(last.ret) : last.ret[n] = saved[1]

\* ---- C28 -------------------------------------------------------------------

\* C28: when the Parallel client is disabled or its request fails (the
\* search result has enabled = False), execute_pipeline skips the web
\* enrichment: no security test case is appended to the plan, and the
\* returned "tests" count is that of the base cases, 2.
C28_DisabledSearchAddsNoTests ==
    last.op = "execute_pipeline" /\ ~last.raised /\ ~last.search.enabled =>
        /\ last.ret.tests = 2
        /\ \A n \in 1..Len(last.plan_tests) :
              last.plan_tests[n].category # "security"

\* ---- C30 -------------------------------------------------------------------

\* C30: read-your-writes on one VerifyPulseRedis: after set(k, v) has
\* returned, a later get(k) on the instance returns v until k is set again,
\* wherever the backend starts failing.  Stated for the get that follows
\* the set at once.
C30_ReadYourWrites ==
    [][ last.op = "set" /\ last'.op = "get" /\ last'.key = last.key
            => last'.ret = [found |-> TRUE, value |-> last.value] ]_vars

====
